---- MODULE Spec2Model ----
(***************************************************************************)
(* Server-side simulation core of the Stricker arena game:                 *)
(*   Animation  (src/server/src/classes/Animation.ts, lines 1-119)         *)
(*   Game       (same file, lines 261-419; the later of the two versions)  *)
(*   Character  (same file, lines 429-763)                                 *)
(*   game loop  (src/server/src/index.ts, lines 48-64)                     *)
(*                                                                         *)
(* Positions are JavaScript numbers.  They are modelled as integers in     *)
(* units of 1/Unit pixel, which represents every value the code computes   *)
(* (6, 4, 6*0.7071, 4*0.7071 and the sampled spawn points) up to the       *)
(* rounding of IEEE doubles.                                               *)
(***************************************************************************)
EXTENDS Integers, Sequences, FiniteSets, TLC

VARIABLES
    sockets,      \* socket id -> "new" | "open" | "closed" (transport state)
    players,      \* Game.players: socket id -> Character, for the ids in the map
    order,        \* insertion order of the keys of Game.players (Object.values order)
    sinceUpdate,  \* ms between lastUpdateTime and the latest Date.now() of the loop
    emitted,      \* outbound events emitted by the handler that ran last
    attackLog,    \* history: the doAttack calls of the handler that ran last
    updateLog,    \* history: the Character.update calls of the handler that ran last
    hist,         \* history: per entity, updates since its action began, etc.
    evLeft,       \* session events still allowed (model bound)
    ticksLeft,    \* simulation steps still allowed (model bound)
    anim,         \* an Animation object on its own: its clip, counters and callbacks
    animHist,     \* history: what the operations on anim did since its construction or reset
    boxes,        \* the arguments and the result of a call of Game.checkCollisions
    client        \* a browser's Client object, its clock, its keyboard and its messages on the way

\* the server
game == <<sockets, players, order, sinceUpdate, emitted, attackLog, updateLog, hist,
          evLeft, ticksLeft>>
\* the objects exercised on their own, and the browser
bench == <<anim, animHist, boxes, client>>

vars == <<sockets, players, order, sinceUpdate, emitted, attackLog, updateLog, hist,
          evLeft, ticksLeft, anim, animHist, boxes, client>>

-----------------------------------------------------------------------------
(* Bounds of the model *)

MaxEvents == 4
MaxTicks == 3
ArenaEvents == 1
ArenaTicks == 30
\* session events and ticks from a state with sessions between games
LobbyEvents == 2
LobbyTicks == 2
LiveEvents == 1
\* an Animation on its own: updates counted, frames of a pause, callbacks registered
MaxAdvances == 24
MaxPause == 2
MaxCallbacks == 2
\* Game.checkCollisions on its own: the second box lies within Span of the first
Span == 3

(* Program constants *)

Unit == 10000
TARGET_FPS == 60
HorizontalSpeed == 6
VerticalSpeed == 4
DiagonalFactor == 7071
MaxX == 970
MaxY == 600
Damage == 10
HitPause == 5
FullHealth == 100
SpawnBase == 100
SpawnRange == 200
DeadCoord == -100
TriggerIndex == 3

Sockets == {"s1", "s2", "s3"}
Usernames == {"ann", "bob"}
DefaultName == "Player"
Keys == {"UP", "DOWN", "LEFT", "RIGHT", "ATTACK"}
\* "JUMP" stands for any key string that is not one of the five game keys
KeyStrings == Keys \cup {"JUMP"}
\* Math.random() samples, in 1/Unit: 0, 0.055 and 0.11 (spawn coordinates 100, 111, 122)
RandomSamples == {0, 550, 1100}
\* elapsed ms between two firings of the interval timer: less than a frame
\* interval, just over one, and three of them
TimerDelays == {16, 17, 50}

NONE == "none"
HURT == "hurt"
PUNCH == "attack.punch"

NoIndex == -1

-----------------------------------------------------------------------------
(* Animation *)

\* Character.constructor: the clip table
Clips ==
    [ stand  |-> [name |-> "stickman",         startFrame |-> 0, frames |-> 3, framePerIndex |-> 4, loop |-> TRUE],
      standR |-> [name |-> "stickmanR",        startFrame |-> 0, frames |-> 3, framePerIndex |-> 4, loop |-> TRUE],
      run    |-> [name |-> "stickman",         startFrame |-> 3, frames |-> 4, framePerIndex |-> 3, loop |-> TRUE],
      runR   |-> [name |-> "stickmanR",        startFrame |-> 3, frames |-> 4, framePerIndex |-> 3, loop |-> TRUE],
      hurt   |-> [name |-> "stickman",         startFrame |-> 7, frames |-> 5, framePerIndex |-> 3, loop |-> FALSE],
      hurtR  |-> [name |-> "stickmanR",        startFrame |-> 7, frames |-> 5, framePerIndex |-> 3, loop |-> FALSE],
      punch  |-> [name |-> "stickmanAttacks",  startFrame |-> 0, frames |-> 6, framePerIndex |-> 3, loop |-> FALSE],
      punchR |-> [name |-> "stickmanAttacksR", startFrame |-> 0, frames |-> 6, framePerIndex |-> 3, loop |-> FALSE] ]

ClipKeys == DOMAIN Clips

\* Animation.constructor: the counters of a new clip
NewAnimation == [isDone |-> FALSE, frame |-> 0, index |-> 0, pauseFrames |-> 0]

\* Animation.reset
AnimReset(a) == [a EXCEPT !.isDone = FALSE, !.frame = 0, !.index = 0, !.pauseFrames = 0]

\* faulty variant of Animation.Pause: the pause is dropped
AnimPauseIgnored(a, frames) == a

\* Animation.Pause
AnimPause(a, frames) == [a EXCEPT !.pauseFrames = frames]

\* Animation.getCurrentFrame
getCurrentFrame(c, a) == c.startFrame + a.index

\* faulty variant of Animation.update: an update of a done clip is not skipped
AnimAdvanceWhenDone(c, a) ==
    IF a.pauseFrames > 0
        THEN [a |-> [a EXCEPT !.pauseFrames = @ - 1], arrived |-> NoIndex]
    ELSE IF a.frame + 1 = c.framePerIndex
        THEN [a |-> [a EXCEPT !.frame = 0, !.index = @ + 1], arrived |-> a.index + 1]
    ELSE [a |-> [a EXCEPT !.frame = @ + 1], arrived |-> NoIndex]

\* faulty variant of Animation.update: the update that uses up the pause advances too
AnimAdvanceShortPause(c, a) ==
    IF a.isDone THEN [a |-> a, arrived |-> NoIndex]
    ELSE IF a.pauseFrames > 1
        THEN [a |-> [a EXCEPT !.pauseFrames = @ - 1], arrived |-> NoIndex]
    ELSE IF a.frame + 1 = c.framePerIndex
        THEN [a |-> [a EXCEPT !.frame = 0, !.index = @ + 1, !.pauseFrames = 0],
              arrived |-> a.index + 1]
    ELSE [a |-> [a EXCEPT !.frame = @ + 1, !.pauseFrames = 0], arrived |-> NoIndex]

\* Animation.update, lines 50-63: up to the point where the index callback is
\* looked up.  arrived is the index the callback lookup uses, NoIndex if the
\* update returns before it.
AnimAdvance(c, a) ==
    IF a.isDone THEN [a |-> a, arrived |-> NoIndex]
    ELSE IF a.pauseFrames > 0
        THEN [a |-> [a EXCEPT !.pauseFrames = @ - 1], arrived |-> NoIndex]
    ELSE IF a.frame + 1 = c.framePerIndex
        THEN [a |-> [a EXCEPT !.frame = 0, !.index = @ + 1], arrived |-> a.index + 1]
    ELSE [a |-> [a EXCEPT !.frame = @ + 1], arrived |-> NoIndex]

\* faulty variant of the end-of-clip check: > instead of >=
AnimEndLate(c, a) ==
    IF a.index > c.frames
    THEN IF c.loop
         THEN [a EXCEPT !.frame = 0, !.index = 0]
         ELSE [a EXCEPT !.index = c.frames - 1, !.isDone = TRUE]
    ELSE a

\* Animation.update, lines 70-79: the end-of-clip check made after the callback
AnimEnd(c, a) ==
    IF a.index >= c.frames
    THEN IF c.loop
         THEN [a EXCEPT !.frame = 0, !.index = 0]
         ELSE [a EXCEPT !.index = c.frames - 1, !.isDone = TRUE]
    ELSE a

\* faulty variant of the callback registration: index 2 instead of 3
HasCallbackAtTwo(k, i) == k \in {"punch", "punchR"} /\ i = 2

\* Character.constructor, setOnIndexMethod calls: the clips and index with a callback
HasCallback(k, i) == k \in {"punch", "punchR"} /\ i = TriggerIndex

\* Animation.update of an object on its own, whose callbacks (registered for
\* the indices in on) do not touch it: the new counters, and the indices whose
\* callback ran
SeqUpdate(c, a, on) ==
    LET r == AnimAdvance(c, a)
    IN [a     |-> IF r.arrived = NoIndex THEN r.a ELSE AnimEnd(c, r.a),
        fired |-> IF r.arrived # NoIndex /\ r.arrived \in on THEN <<r.arrived>> ELSE <<>>]

-----------------------------------------------------------------------------
(* Game.checkCollisions *)

\* faulty variant of Game.checkCollisions: <= and >= instead of < and >
checkCollisionsClosed(box1, box1Position, box2, box2Position) ==
    /\ box1Position.x + box1.offset.x <= box2Position.x + box2.offset.x + box2.size.x
    /\ box1Position.x + box1.offset.x + box1.size.x >= box2Position.x + box2.offset.x
    /\ box1Position.y + box1.offset.y <= box2Position.y + box2.offset.y + box2.size.y
    /\ box1Position.y + box1.offset.y + box1.size.y >= box2Position.y + box2.offset.y

checkCollisions(box1, box1Position, box2, box2Position) ==
    /\ box1Position.x + box1.offset.x < box2Position.x + box2.offset.x + box2.size.x
    /\ box1Position.x + box1.offset.x + box1.size.x > box2Position.x + box2.offset.x
    /\ box1Position.y + box1.offset.y < box2Position.y + box2.offset.y + box2.size.y
    /\ box1Position.y + box1.offset.y + box1.size.y > box2Position.y + box2.offset.y

-----------------------------------------------------------------------------
(* Character *)

Pt(px, py) == [x |-> px * Unit, y |-> py * Unit]

\* Character.hurtBox
hurtBox == [size |-> Pt(44, 12), offset |-> Pt(-22, -6)]

\* faulty variant of Character.attacks: the left punch has the right punch's offset
attacksSameBox ==
    [ punch  |-> [hitBox |-> [size |-> Pt(56, 24), offset |-> Pt(0, -12)]],
      punchR |-> [hitBox |-> [size |-> Pt(56, 24), offset |-> Pt(0, -12)]] ]

\* Character.attacks
attacks ==
    [ punch  |-> [hitBox |-> [size |-> Pt(56, 24), offset |-> Pt(-56, -12)]],
      punchR |-> [hitBox |-> [size |-> Pt(56, 24), offset |-> Pt(0, -12)]] ]

\* Character.generateColor: the hue of the hsl() string, from the char codes of the socket id
CharCodes == [s1 |-> <<115, 49>>, s2 |-> <<115, 50>>, s3 |-> <<115, 51>>]
generateColor(id) == (CharCodes[id][1] + CharCodes[id][2]) % 360

\* Character.constructor
NewCharacter(id) ==
    [ id          |-> id,
      name        |-> DefaultName,
      color       |-> generateColor(id),
      health      |-> FullHealth,
      facingRight |-> TRUE,
      input       |-> {},
      position    |-> Pt(100, 100),
      animations  |-> [k \in ClipKeys |-> NewAnimation],
      action      |-> NONE,
      animation   |-> "stand" ]

\* history kept beside a Character, for the timing claims: age counts its
\* updates since the action it is in began; resolved and hits count the attack
\* resolutions of the punch in progress and the targets they hit; startFacing
\* is facingRight when the punch began; ended is the action that the entity's
\* latest update ended by returning to NONE (age, resolved and hits are then
\* those of the ended action), and NONE otherwise
NewHist == [age |-> 0, resolved |-> 0, hits |-> 0, startFacing |-> TRUE, ended |-> NONE]

\* The world the handlers act on
World(p, e, h) ==
    [players |-> p, emitted |-> e, hist |-> h, attackLog |-> <<>>, updateLog |-> <<>>]

\* the current Animation object of a Character
CurrentAnim(ch) == ch.animations[ch.animation]

\* Character.setName
setName(ch, name) == [ch EXCEPT !.name = name]

\* Character.setKeys
setKeys(ch, key, pressed) ==
    IF pressed THEN [ch EXCEPT !.input = @ \cup {key}]
    ELSE [ch EXCEPT !.input = @ \ {key}]

\* faulty variant of Character.move: a diagonal step is not scaled
moveUnscaled(ch, dx, dy) ==
    [ch EXCEPT !.position.x = @ + dx * HorizontalSpeed * Unit,
               !.position.y = @ + dy * VerticalSpeed * Unit]

\* Character.move
move(ch, dx, dy) ==
    IF dx # 0 /\ dy # 0
    THEN [ch EXCEPT !.position.x = @ + dx * HorizontalSpeed * DiagonalFactor,
                    !.position.y = @ + dy * VerticalSpeed * DiagonalFactor]
    ELSE [ch EXCEPT !.position.x = @ + dx * HorizontalSpeed * Unit,
                    !.position.y = @ + dy * VerticalSpeed * Unit]

\* faulty variant of Character.enforceBoundaries: the upper limits are exchanged
enforceBoundariesSwapped(ch) ==
    LET x1 == IF ch.position.x < 0 THEN 0 ELSE ch.position.x
        y1 == IF ch.position.y < 0 THEN 0 ELSE ch.position.y
        x2 == IF x1 > MaxY * Unit THEN MaxY * Unit ELSE x1
        y2 == IF y1 > MaxX * Unit THEN MaxX * Unit ELSE y1
    IN [ch EXCEPT !.position = [x |-> x2, y |-> y2]]

\* Character.enforceBoundaries
enforceBoundaries(ch) ==
    LET x1 == IF ch.position.x < 0 THEN 0 ELSE ch.position.x
        y1 == IF ch.position.y < 0 THEN 0 ELSE ch.position.y
        x2 == IF x1 > MaxX * Unit THEN MaxX * Unit ELSE x1
        y2 == IF y1 > MaxY * Unit THEN MaxY * Unit ELSE y1
    IN [ch EXCEPT !.position = [x |-> x2, y |-> y2]]

\* variant of Character.hurt that leaves an entity already in HURT alone
hurtUnlessHurt(ch) ==
    IF ch.action = HURT THEN ch
    ELSE LET k == IF ~ch.facingRight THEN "hurt" ELSE "hurtR"
         IN [ch EXCEPT !.action = HURT, !.animation = k, !.animations[k] = AnimReset(@)]

\* faulty variant of Character.hurt: the current clip is not switched
hurtKeepsClip(ch) ==
    LET k == IF ~ch.facingRight THEN "hurt" ELSE "hurtR"
    IN [ch EXCEPT !.action = HURT,
                  !.animations[k] = AnimReset(@)]

\* Character.hurt
hurt(ch) ==
    LET k == IF ~ch.facingRight THEN "hurt" ELSE "hurtR"
    IN [ch EXCEPT !.action = HURT,
                  !.animation = k,
                  !.animations[k] = AnimReset(@)]

\* faulty variant of Character.resetToDeadState: the entity stays where it died
resetToDeadStateInPlace(ch) ==
    [ch EXCEPT !.health = 0,
               !.action = NONE,
               !.input = {}]

\* faulty variant of Character.resetToDeadState: the input is not cleared
resetToDeadStateKeepsInput(ch) ==
    [ch EXCEPT !.health = 0,
               !.action = NONE,
               !.position = Pt(DeadCoord, DeadCoord)]

\* Character.resetToDeadState
resetToDeadState(ch) ==
    [ch EXCEPT !.health = 0,
               !.action = NONE,
               !.input = {},
               !.position = Pt(DeadCoord, DeadCoord)]

\* faulty variant of the player-death emit: io.emit instead of io.to(id).emit
DeathEventBroadcast(id) == [type |-> "player-death", to |-> "ALL"]

\* the player-death event of Character.handleDeath, sent with io.to(id)
DeathEvent(id) == [type |-> "player-death", to |-> id]

\* faulty variant of Character.takeDamage: the amount is added
takeDamageAdds(W, id, amount) == [W EXCEPT !.players[id].health = @ + amount]

\* Character.takeDamage with Character.handleDeath, on the entity id of world W
takeDamage(W, id, amount) ==
    LET ch == W.players[id]
        h  == ch.health - amount
    IN IF h <= 0
       THEN [W EXCEPT !.emitted = Append(@, DeathEvent(id)),
                      !.players[id] = resetToDeadState([ch EXCEPT !.health = 0])]
       ELSE [W EXCEPT !.players[id].health = h]

\* faulty variant of Character.respawn: the spawn range is 300 wide
respawnWide(ch, rx, ry) ==
    [ch EXCEPT !.health = FullHealth,
               !.position = [x |-> SpawnBase * Unit + rx * 300,
                             y |-> SpawnBase * Unit + ry * 300],
               !.action = NONE,
               !.input = {},
               !.facingRight = TRUE,
               !.animation = "stand"]

\* faulty variant of Character.respawn: the action is left as it was
respawnKeepsAction(ch, rx, ry) ==
    [ch EXCEPT !.health = FullHealth,
               !.position = [x |-> SpawnBase * Unit + rx * SpawnRange,
                             y |-> SpawnBase * Unit + ry * SpawnRange],
               !.input = {},
               !.facingRight = TRUE,
               !.animation = "stand"]

\* Character.respawn; rx and ry are the two Math.random() values, in 1/Unit
respawn(ch, rx, ry) ==
    [ch EXCEPT !.health = FullHealth,
               !.position = [x |-> SpawnBase * Unit + rx * SpawnRange,
                             y |-> SpawnBase * Unit + ry * SpawnRange],
               !.action = NONE,
               !.input = {},
               !.facingRight = TRUE,
               !.animation = "stand"]

-----------------------------------------------------------------------------
(* Attack resolution *)

\* faulty variant of the forEach body: the attacker is not skipped
AttackOneSelf(W, id, attackType, p) ==
    IF checkCollisions(attacks[attackType].hitBox, W.players[id].position,
                       hurtBox, W.players[p].position)
    THEN LET W1 == [W EXCEPT !.players[p] = hurt(@)]
             W2 == takeDamage(W1, p, Damage)
             W3 == [W2 EXCEPT !.players[id].animations[W2.players[id].animation] =
                                  AnimPause(@, HitPause)]
         IN [W3 EXCEPT !.players[p].animations[W3.players[p].animation] =
                           AnimPause(@, HitPause)]
    ELSE W

\* faulty variant of the iteration: a target that is punching is not hit
AttackOneSpareBusy(W, id, attackType, p) ==
    IF p # id /\ W.players[p].action # PUNCH
       /\ checkCollisions(attacks[attackType].hitBox, W.players[id].position,
                          hurtBox, W.players[p].position)
    THEN LET W1 == [W EXCEPT !.players[p] = hurt(@),
                             !.hist[p] = NewHist,
                             !.hist[id].hits = @ + 1]
             W2 == takeDamage(W1, p, Damage)
             W3 == [W2 EXCEPT !.players[id].animations[W2.players[id].animation] =
                                  AnimPause(@, HitPause)]
         IN [W3 EXCEPT !.players[p].animations[W3.players[p].animation] =
                           AnimPause(@, HitPause)]
    ELSE W

\* one iteration of the forEach of Character.doAttack: attacker id tests target p
AttackOne(W, id, attackType, p) ==
    IF p # id /\ checkCollisions(attacks[attackType].hitBox, W.players[id].position,
                                 hurtBox, W.players[p].position)
    THEN LET W1 == [W EXCEPT !.players[p] = hurt(@),
                             !.hist[p] = NewHist,
                             !.hist[id].hits = @ + 1]
             W2 == takeDamage(W1, p, Damage)
             W3 == [W2 EXCEPT !.players[id].animations[W2.players[id].animation] =
                                  AnimPause(@, HitPause)]
         IN [W3 EXCEPT !.players[p].animations[W3.players[p].animation] =
                           AnimPause(@, HitPause)]
    ELSE W

RECURSIVE AttackAll(_, _, _, _, _)
AttackAll(W, id, attackType, targets, i) ==
    IF i > Len(targets) THEN W
    ELSE AttackAll(AttackOne(W, id, attackType, targets[i]), id, attackType, targets, i + 1)

\* Character.doAttack, called with Object.values(this.game.players)
doAttack(W, id, attackType) ==
    IF attackType \notin DOMAIN attacks THEN W
    ELSE LET W1 == AttackAll(W, id, attackType, order, 1)
         IN [W1 EXCEPT !.hist[id].resolved = @ + 1,
                       !.attackLog = Append(@, [attacker    |-> id,
                                                attackType  |-> attackType,
                                                age         |-> W.hist[id].age,
                                                startFacing |-> W.hist[id].startFacing,
                                                before      |-> W.players,
                                                after       |-> W1.players])]

\* Animation.update of the current clip of entity id, with the index callback
\* (the closure calling doAttack) run where the code runs it
AnimationUpdate(W, id) ==
    LET k  == W.players[id].animation
        r  == AnimAdvance(Clips[k], W.players[id].animations[k])
        W1 == [W EXCEPT !.players[id].animations[k] = r.a]
        W2 == IF r.arrived # NoIndex /\ HasCallback(k, r.arrived)
              THEN doAttack(W1, id, k)
              ELSE W1
    IN IF r.arrived = NoIndex THEN W1
       ELSE [W2 EXCEPT !.players[id].animations[k] = AnimEnd(Clips[k], @)]

\* faulty variant of case NONE: the punch clip is not reset
UpdateNoneNoReset(ch, dx, dy) ==
    LET c1 == [move(ch, dx, dy) EXCEPT !.facingRight = ~(dx < 0)]
        c2 == IF dx = 0 /\ dy = 0
              THEN [c1 EXCEPT !.animation = IF c1.facingRight THEN "standR" ELSE "stand"]
              ELSE [c1 EXCEPT !.animation = IF c1.facingRight THEN "runR" ELSE "run"]
    IN IF "ATTACK" \in c2.input
       THEN [c2 EXCEPT !.action = PUNCH,
                       !.animation = IF c2.facingRight THEN "punchR" ELSE "punch"]
       ELSE c2

\* faulty variant of case NONE: an entity that does not move sideways keeps its facing
UpdateNoneKeepsFacing(ch, dx, dy) ==
    LET c1 == [move(ch, dx, dy) EXCEPT !.facingRight = IF dx = 0 THEN @ ELSE dx > 0]
        c2 == IF dx = 0 /\ dy = 0
              THEN [c1 EXCEPT !.animation = IF c1.facingRight THEN "standR" ELSE "stand"]
              ELSE [c1 EXCEPT !.animation = IF c1.facingRight THEN "runR" ELSE "run"]
    IN IF "ATTACK" \in c2.input
       THEN LET k == IF c2.facingRight THEN "punchR" ELSE "punch"
            IN [c2 EXCEPT !.action = PUNCH,
                          !.animation = k,
                          !.animations[k] = AnimReset(@)]
       ELSE c2

\* Character.update, case NONE
UpdateNone(ch, dx, dy) ==
    LET c1 == [move(ch, dx, dy) EXCEPT !.facingRight = ~(dx < 0)]
        c2 == IF dx = 0 /\ dy = 0
              THEN [c1 EXCEPT !.animation = IF c1.facingRight THEN "standR" ELSE "stand"]
              ELSE [c1 EXCEPT !.animation = IF c1.facingRight THEN "runR" ELSE "run"]
    IN IF "ATTACK" \in c2.input
       THEN LET k == IF c2.facingRight THEN "punchR" ELSE "punch"
            IN [c2 EXCEPT !.action = PUNCH,
                          !.animation = k,
                          !.animations[k] = AnimReset(@)]
       ELSE c2

\* faulty variant of cases HURT, ATTACK.PUNCH: tests the last index, not isDone
UpdateBusyLastIndex(ch) ==
    IF CurrentAnim(ch).index = Clips[ch.animation].frames - 1
    THEN [ch EXCEPT !.action = NONE,
                    !.animation = IF ch.facingRight THEN "standR" ELSE "stand"]
    ELSE ch

\* faulty variant of cases HURT, ATTACK.PUNCH: a held ATTACK starts a punch at once
UpdateBusyChains(ch) ==
    IF CurrentAnim(ch).isDone
    THEN IF "ATTACK" \in ch.input
         THEN LET k == IF ch.facingRight THEN "punchR" ELSE "punch"
              IN [ch EXCEPT !.action = PUNCH, !.animation = k, !.animations[k] = AnimReset(@)]
         ELSE [ch EXCEPT !.action = NONE,
                         !.animation = IF ch.facingRight THEN "standR" ELSE "stand"]
    ELSE ch

\* faulty variant of cases HURT, ATTACK.PUNCH: the held keys move the entity
UpdateBusyMoves(ch) ==
    LET dy == (IF "DOWN" \in ch.input THEN 1 ELSE 0) - (IF "UP" \in ch.input THEN 1 ELSE 0)
        dx == (IF "RIGHT" \in ch.input THEN 1 ELSE 0) - (IF "LEFT" \in ch.input THEN 1 ELSE 0)
        c1 == move(ch, dx, dy)
    IN IF CurrentAnim(c1).isDone
       THEN [c1 EXCEPT !.action = NONE,
                       !.animation = IF c1.facingRight THEN "standR" ELSE "stand"]
       ELSE c1

\* Character.update, cases HURT and ATTACK.PUNCH
UpdateBusy(ch) ==
    IF CurrentAnim(ch).isDone
    THEN [ch EXCEPT !.action = NONE,
                    !.animation = IF ch.facingRight THEN "standR" ELSE "stand"]
    ELSE ch

\* Character.update of entity id
CharacterUpdate(W, id) ==
    LET ch0 == W.players[id]
        dy  == (IF "DOWN" \in ch0.input THEN 1 ELSE 0) - (IF "UP" \in ch0.input THEN 1 ELSE 0)
        dx  == (IF "RIGHT" \in ch0.input THEN 1 ELSE 0) - (IF "LEFT" \in ch0.input THEN 1 ELSE 0)
        W0  == IF ch0.action # NONE THEN [W EXCEPT !.hist[id].age = @ + 1] ELSE W
        W1  == AnimationUpdate(W0, id)
        ch1 == W1.players[id]
        ch2 == IF ch1.action = NONE THEN UpdateNone(ch1, dx, dy) ELSE UpdateBusy(ch1)
        h2  == IF ch1.action = NONE
               THEN [NewHist EXCEPT !.startFacing = ch2.facingRight]
               ELSE [W1.hist[id] EXCEPT !.ended = IF ch2.action = NONE THEN ch1.action ELSE NONE]
        ch3 == enforceBoundaries(ch2)
    IN [W1 EXCEPT !.players[id] = ch3,
                  !.hist[id] = h2,
                  !.updateLog = Append(@, [id |-> id, before |-> ch0, after |-> ch3])]

\* faulty variant of the forEach of Game.update: the health test is missing
RECURSIVE UpdateAllDead(_, _, _)
UpdateAllDead(W, ids, i) ==
    IF i > Len(ids) THEN W
    ELSE UpdateAllDead(CharacterUpdate(W, ids[i]), ids, i + 1)

\* faulty variant of the forEach of Game.update: an entity in HURT or in
\* ATTACK.PUNCH is passed over
RECURSIVE UpdateAllIdle(_, _, _)
UpdateAllIdle(W, ids, i) ==
    IF i > Len(ids) THEN W
    ELSE UpdateAllIdle(IF W.players[ids[i]].health > 0 /\ W.players[ids[i]].action = NONE
                       THEN CharacterUpdate(W, ids[i]) ELSE W,
                       ids, i + 1)

\* the forEach of Game.update over Object.values(this.players)
RECURSIVE UpdateAll(_, _, _)
UpdateAll(W, ids, i) ==
    IF i > Len(ids) THEN W
    ELSE UpdateAll(IF W.players[ids[i]].health > 0 THEN CharacterUpdate(W, ids[i]) ELSE W,
                   ids, i + 1)

\* Game.update
GameUpdate(W) == UpdateAll(W, order, 1)

\* Character.getPlayerInfo
getPlayerInfo(ch) ==
    [ id          |-> ch.id,
      name        |-> ch.name,
      health      |-> ch.health,
      position    |-> ch.position,
      facingRight |-> ch.facingRight,
      color       |-> ch.color,
      animation   |-> [name  |-> Clips[ch.animation].name,
                       index |-> getCurrentFrame(Clips[ch.animation], CurrentAnim(ch))] ]

\* Game.broadcastGameState: one io.emit per entry of the map (the timestamp is left out)
broadcastGameState(W) ==
    LET playerData == [i \in 1..Len(order) |-> getPlayerInfo(W.players[order[i]])]
        status     == [type |-> "game-status", to |-> "ALL",
                       players |-> playerData, totalPlayers |-> Len(playerData)]
    IN [W EXCEPT !.emitted = @ \o [i \in 1..Len(order) |-> status]]

-----------------------------------------------------------------------------
(* Handlers *)

Fresh == World(players, <<>>, hist)

Commit(W) ==
    /\ players' = W.players
    /\ emitted' = W.emitted
    /\ attackLog' = W.attackLog
    /\ updateLog' = W.updateLog
    /\ hist' = W.hist

Without(seq, s) == SelectSeq(seq, LAMBDA e : e # s)
Drop(f, s) == [k \in DOMAIN f \ {s} |-> f[k]]
Put(f, s, v) == [k \in DOMAIN f \cup {s} |-> IF k = s THEN v ELSE f[k]]

\* faulty variant of io.on("connection"): an entity is made for the socket
ConnectionCreates(s) ==
    /\ sockets[s] = "new"
    /\ evLeft > 0
    /\ sockets' = [sockets EXCEPT ![s] = "open"]
    /\ evLeft' = evLeft - 1
    /\ Commit(World(Put(players, s, NewCharacter(s)), <<>>, Put(hist, s, NewHist)))
    /\ order' = Append(order, s)
    /\ UNCHANGED <<sinceUpdate, ticksLeft>>
    /\ UNCHANGED bench

\* io.on("connection"): the socket's handlers are registered, no entity is made
Connection(s) ==
    /\ sockets[s] = "new"
    /\ evLeft > 0
    /\ sockets' = [sockets EXCEPT ![s] = "open"]
    /\ evLeft' = evLeft - 1
    /\ Commit(Fresh)
    /\ UNCHANGED <<order, sinceUpdate, ticksLeft>>
    /\ UNCHANGED bench

\* faulty variant of socket.on("join-game"): the entity is made anew at every join
JoinGameRecreates(s, username, rx, ry) ==
    /\ sockets[s] = "open"
    /\ evLeft > 0
    /\ Commit(World(Put(players, s, setName(NewCharacter(s), username)), <<>>,
                    Put(hist, s, NewHist)))
    /\ order' = IF s \notin DOMAIN players THEN Append(order, s) ELSE order
    /\ evLeft' = evLeft - 1
    /\ UNCHANGED <<sockets, sinceUpdate, ticksLeft>>
    /\ UNCHANGED bench

\* socket.on("join-game")
JoinGame(s, username, rx, ry) ==
    /\ sockets[s] = "open"
    /\ evLeft > 0
    /\ LET p1 == IF s \notin DOMAIN players THEN Put(players, s, NewCharacter(s)) ELSE players
           h1 == IF s \notin DOMAIN players THEN Put(hist, s, NewHist) ELSE hist
           p2 == [p1 EXCEPT ![s] = setName(@, username)]
           dead == getPlayerInfo(p2[s]).health <= 0
       IN /\ Commit(World(IF dead THEN [p2 EXCEPT ![s] = respawn(@, rx, ry)] ELSE p2,
                          <<>>,
                          IF dead THEN [h1 EXCEPT ![s] = NewHist] ELSE h1))
          /\ order' = IF s \notin DOMAIN players THEN Append(order, s) ELSE order
    /\ evLeft' = evLeft - 1
    /\ UNCHANGED <<sockets, sinceUpdate, ticksLeft>>
    /\ UNCHANGED bench

\* faulty variant of socket.on("respawn"): a session without entity gets one
RespawnCreates(s, rx, ry) ==
    /\ sockets[s] = "open"
    /\ evLeft > 0
    /\ IF s \in DOMAIN players
       THEN /\ Commit(World([players EXCEPT ![s] = respawn(@, rx, ry)], <<>>,
                            [hist EXCEPT ![s] = NewHist]))
            /\ order' = order
       ELSE /\ Commit(World(Put(players, s, respawn(NewCharacter(s), rx, ry)), <<>>,
                            Put(hist, s, NewHist)))
            /\ order' = Append(order, s)
    /\ evLeft' = evLeft - 1
    /\ UNCHANGED <<sockets, sinceUpdate, ticksLeft>>
    /\ UNCHANGED bench

\* faulty variant of socket.on("respawn"): only a dead entity is respawned
RespawnDeadOnly(s, rx, ry) ==
    /\ sockets[s] = "open"
    /\ evLeft > 0
    /\ IF s \in DOMAIN players /\ players[s].health <= 0
       THEN Commit(World([players EXCEPT ![s] = respawn(@, rx, ry)], <<>>,
                         [hist EXCEPT ![s] = NewHist]))
       ELSE Commit(Fresh)
    /\ evLeft' = evLeft - 1
    /\ UNCHANGED <<sockets, order, sinceUpdate, ticksLeft>>
    /\ UNCHANGED bench

\* socket.on("respawn")
Respawn(s, rx, ry) ==
    /\ sockets[s] = "open"
    /\ evLeft > 0
    /\ IF s \in DOMAIN players
       THEN Commit(World([players EXCEPT ![s] = respawn(@, rx, ry)], <<>>,
                         [hist EXCEPT ![s] = NewHist]))
       ELSE Commit(Fresh)
    /\ evLeft' = evLeft - 1
    /\ UNCHANGED <<sockets, order, sinceUpdate, ticksLeft>>
    /\ UNCHANGED bench

\* faulty variant of socket.on("key-press"): the health test is missing
KeyPressAnyHealth(s, key, pressed) ==
    /\ sockets[s] = "open"
    /\ evLeft > 0
    /\ IF s \in DOMAIN players
       THEN Commit(World([players EXCEPT ![s] = setKeys(@, key, pressed)], <<>>, hist))
       ELSE Commit(Fresh)
    /\ evLeft' = evLeft - 1
    /\ UNCHANGED <<sockets, order, sinceUpdate, ticksLeft>>
    /\ UNCHANGED bench

\* socket.on("key-press")
KeyPress(s, key, pressed) ==
    /\ sockets[s] = "open"
    /\ evLeft > 0
    /\ IF s \in DOMAIN players /\ getPlayerInfo(players[s]).health > 0
       THEN Commit(World([players EXCEPT ![s] = setKeys(@, key, pressed)], <<>>, hist))
       ELSE Commit(Fresh)
    /\ evLeft' = evLeft - 1
    /\ UNCHANGED <<sockets, order, sinceUpdate, ticksLeft>>
    /\ UNCHANGED bench

\* socket.on("leave-game")
LeaveGame(s) ==
    /\ sockets[s] = "open"
    /\ evLeft > 0
    /\ IF s \in DOMAIN players
       THEN /\ Commit(World(Drop(players, s), <<>>, Drop(hist, s)))
            /\ order' = Without(order, s)
       ELSE /\ Commit(Fresh)
            /\ order' = order
    /\ evLeft' = evLeft - 1
    /\ UNCHANGED <<sockets, sinceUpdate, ticksLeft>>
    /\ UNCHANGED bench

\* faulty variant of socket.on("disconnect"): the entity is not deleted
DisconnectKeepsEntity(s) ==
    /\ sockets[s] = "open"
    /\ evLeft > 0
    /\ sockets' = [sockets EXCEPT ![s] = "closed"]
    /\ Commit(Fresh)
    /\ evLeft' = evLeft - 1
    /\ UNCHANGED <<order, sinceUpdate, ticksLeft>>
    /\ UNCHANGED bench

\* socket.on("disconnect"): the transport closed
Disconnect(s) ==
    /\ sockets[s] = "open"
    /\ evLeft > 0
    /\ sockets' = [sockets EXCEPT ![s] = "closed"]
    /\ Commit(World(Drop(players, s), <<>>, Drop(hist, s)))
    /\ order' = Without(order, s)
    /\ evLeft' = evLeft - 1
    /\ UNCHANGED <<sinceUpdate, ticksLeft>>
    /\ UNCHANGED bench

\* faulty variant of the setInterval callback: FRAME_TIME is the whole number 16
GameLoopTruncated(dt) ==
    LET deltaTime == sinceUpdate + dt
    IN IF deltaTime >= 1000 \div TARGET_FPS
       THEN /\ ticksLeft > 0
            /\ Commit(broadcastGameState(GameUpdate(Fresh)))
            /\ sinceUpdate' = 0
            /\ ticksLeft' = ticksLeft - 1
            /\ UNCHANGED <<sockets, order, evLeft>>
            /\ UNCHANGED bench
       ELSE /\ Commit(Fresh)
            /\ sinceUpdate' = deltaTime
            /\ UNCHANGED <<sockets, order, evLeft, ticksLeft>>
            /\ UNCHANGED bench

\* faulty variant of the setInterval callback: the broadcast comes before the update
GameLoopBroadcastFirst(dt) ==
    LET deltaTime == sinceUpdate + dt
    IN IF deltaTime * TARGET_FPS >= 1000
       THEN /\ ticksLeft > 0
            /\ Commit(GameUpdate(broadcastGameState(Fresh)))
            /\ sinceUpdate' = 0
            /\ ticksLeft' = ticksLeft - 1
            /\ UNCHANGED <<sockets, order, evLeft>>
            /\ UNCHANGED bench
       ELSE /\ Commit(Fresh)
            /\ sinceUpdate' = deltaTime
            /\ UNCHANGED <<sockets, order, evLeft, ticksLeft>>
            /\ UNCHANGED bench

\* the setInterval callback of index.ts; dt is the time since its last firing
GameLoop(dt) ==
    LET deltaTime == sinceUpdate + dt
    IN IF deltaTime * TARGET_FPS >= 1000
       THEN /\ ticksLeft > 0
            /\ Commit(broadcastGameState(GameUpdate(Fresh)))
            /\ sinceUpdate' = 0
            /\ ticksLeft' = ticksLeft - 1
            /\ UNCHANGED <<sockets, order, evLeft>>
            /\ UNCHANGED bench
       ELSE /\ Commit(Fresh)
            /\ sinceUpdate' = deltaTime
            /\ UNCHANGED <<sockets, order, evLeft, ticksLeft>>
            /\ UNCHANGED bench

\* the setInterval callback of index.ts, running for as long as the server
\* does: the same step, with no limit on the number of ticks
GameLoopLive(dt) ==
    LET deltaTime == sinceUpdate + dt
    IN IF deltaTime * TARGET_FPS >= 1000
       THEN /\ Commit(broadcastGameState(GameUpdate(Fresh)))
            /\ sinceUpdate' = 0
            /\ UNCHANGED <<sockets, order, evLeft, ticksLeft>>
            /\ UNCHANGED bench
       ELSE /\ Commit(Fresh)
            /\ sinceUpdate' = deltaTime
            /\ UNCHANGED <<sockets, order, evLeft, ticksLeft>>
            /\ UNCHANGED bench

-----------------------------------------------------------------------------
(* Specification: the server from its construction *)

Init ==
    /\ sockets = [s \in Sockets |-> "new"]
    /\ players = <<>>
    /\ order = <<>>
    /\ sinceUpdate = 0
    /\ emitted = <<>>
    /\ attackLog = <<>>
    /\ updateLog = <<>>
    /\ hist = <<>>
    /\ evLeft = MaxEvents
    /\ ticksLeft = MaxTicks
    /\ anim = <<>>
    /\ animHist = <<>>
    /\ boxes = <<>>
    /\ client = <<>>

Next ==
    \/ \E s \in Sockets : Connection(s)
    \/ \E s \in Sockets, u \in Usernames, rx \in RandomSamples, ry \in RandomSamples :
           JoinGame(s, u, rx, ry)
    \/ \E s \in Sockets, rx \in RandomSamples, ry \in RandomSamples : Respawn(s, rx, ry)
    \/ \E s \in Sockets, key \in KeyStrings, pressed \in BOOLEAN : KeyPress(s, key, pressed)
    \/ \E s \in Sockets : LeaveGame(s)
    \/ \E s \in Sockets : Disconnect(s)
    \/ \E dt \in TimerDelays : GameLoop(dt)

Spec == Init /\ [][Next]_vars

-----------------------------------------------------------------------------
(* Specification: the server in the middle of a game.  Every initial state  *)
(* is one the server reaches from its construction: an entity made by       *)
(* join-game, placed by a respawn request at a sampled spawn point and      *)
(* holding the keys of its key-press events; Battered is such an entity     *)
(* after nine hits (by an entity whose session then left and joined again)  *)
(* and the idle updates that follow the last hurt clip.                     *)

Placed(id, rx, ry, keys) ==
    [respawn(setName(NewCharacter(id), "ann"), rx, ry) EXCEPT !.input = keys]

Battered(ch) ==
    [ch EXCEPT !.health = Damage,
               !.animation = "standR",
               !.animations.stand = [NewAnimation EXCEPT !.frame = 1],
               !.animations.hurtR = [isDone |-> TRUE, frame |-> 0, index |-> 4, pauseFrames |-> 0]]

\* the scenes: the entities of the map, in map order
Scenes ==
    { \* duel: s1 attacks s2
      << Placed("s1", 0, 0, {"ATTACK"}), Placed("s2", 0, 0, {}) >>,
      \* the same with the target first in the map
      << Placed("s2", 0, 0, {}), Placed("s1", 0, 0, {"ATTACK"}) >>,
      \* both attack
      << Placed("s1", 0, 0, {"ATTACK"}), Placed("s2", 0, 0, {"ATTACK"}) >>,
      \* targets one hit from death
      << Battered(Placed("s2", 0, 0, {})), Placed("s3", 0, 550, {}), Placed("s1", 0, 0, {"ATTACK"}) >>,
      << Placed("s1", 0, 0, {"ATTACK"}), Battered(Placed("s2", 0, 0, {"ATTACK"})),
         Battered(Placed("s3", 0, 550, {})) >>,
      \* a chain: s1 reaches s2 only, s3 reaches s2 only
      << Placed("s1", 0, 0, {"ATTACK"}), Placed("s2", 0, 550, {}), Placed("s3", 0, 1100, {}) >>,
      \* facing left: s1 steps to x = 94 and reaches s3 but not s2
      << Placed("s1", 0, 0, {"LEFT", "ATTACK"}), Placed("s2", 1100, 0, {}), Placed("s3", 0, 0, {}) >>,
      \* two punches due in the same tick on a target one hit from death, the
      \* attackers out of each other's reach
      << Placed("s1", 0, 0, {"ATTACK"}), Battered(Placed("s2", 0, 550, {})),
         Placed("s3", 0, 1100, {"ATTACK"}) >>,
      \* a punch that reaches no one
      << Placed("s1", 0, 0, {"ATTACK"}), Placed("s2", 1100, 1100, {}) >> }

InitArena ==
    \E scene \in Scenes :
        LET ids == {scene[i].id : i \in 1..Len(scene)}
        IN /\ sockets = [s \in Sockets |-> IF s \in ids THEN "open" ELSE "new"]
           /\ players = [s \in ids |-> LET i == CHOOSE i \in 1..Len(scene) : scene[i].id = s
                                       IN scene[i]]
           /\ order = [i \in 1..Len(scene) |-> scene[i].id]
           /\ hist = [s \in ids |-> NewHist]
           /\ sinceUpdate = 0
           /\ emitted = <<>>
           /\ attackLog = <<>>
           /\ updateLog = <<>>
           /\ evLeft = ArenaEvents
           /\ ticksLeft = ArenaTicks
           /\ anim = <<>>
           /\ animHist = <<>>
           /\ boxes = <<>>
           /\ client = <<>>

SpecArena == InitArena /\ [][Next]_vars

-----------------------------------------------------------------------------
(* Specification: entities on the move.  Every initial state is one the     *)
(* server reaches from its construction: an entity placed as above, which   *)
(* may have walked for a number of ticks, holding the keys of its latest    *)
(* key-press events.                                                        *)

\* key-press events that leave ch holding keys
Holding(ch, keys) == [ch EXCEPT !.input = keys]

\* A placed entity after n >= 1 ticks holding RIGHT and then m ticks holding
\* DOWN, away from the walls and alone in the map.  Its first update advances
\* the stand clip it was placed with and makes runR current; each later one
\* advances runR (4 indices of 3 ticks, looping) and moves it by 6 or by 4.
Walked(ch, n, m) ==
    [ch EXCEPT !.position = [x |-> @.x + n * HorizontalSpeed * Unit,
                             y |-> @.y + m * VerticalSpeed * Unit],
               !.animation = "runR",
               !.animations.stand = [@ EXCEPT !.frame = 1],
               !.animations.runR = [@ EXCEPT !.frame = (n + m - 1) % 3,
                                             !.index = ((n + m - 1) \div 3) % 4]]

\* an entity that walked from (100,100) to (964,592), two diagonal steps from the far corner
NearFarCorner(id) == Holding(Walked(Placed(id, 0, 0, {}), 144, 123), {"RIGHT", "DOWN"})

FieldScenes ==
    { \* towards the near walls, diagonally
      << Placed("s1", 0, 0, {"LEFT", "UP"}) >>,
      \* towards the far walls, diagonally
      << NearFarCorner("s1") >>,
      \* opposite keys of one axis held, with and without the other axis
      << Placed("s1", 0, 0, {"LEFT", "RIGHT", "DOWN"}), Placed("s2", 1100, 1100, {"UP"}) >>,
      << Placed("s2", 550, 0, {"UP", "DOWN", "LEFT"}), Placed("s1", 0, 0, {"RIGHT"}) >> }

InitField ==
    \E scene \in FieldScenes :
        LET ids == {scene[i].id : i \in 1..Len(scene)}
        IN /\ sockets = [s \in Sockets |-> IF s \in ids THEN "open" ELSE "new"]
           /\ players = [s \in ids |-> LET i == CHOOSE i \in 1..Len(scene) : scene[i].id = s
                                       IN scene[i]]
           /\ order = [i \in 1..Len(scene) |-> scene[i].id]
           /\ hist = [s \in ids |-> NewHist]
           /\ sinceUpdate = 0
           /\ emitted = <<>>
           /\ attackLog = <<>>
           /\ updateLog = <<>>
           /\ evLeft = ArenaEvents
           /\ ticksLeft = ArenaTicks
           /\ anim = <<>>
           /\ animHist = <<>>
           /\ boxes = <<>>
           /\ client = <<>>

SpecField == InitField /\ [][Next]_vars

-----------------------------------------------------------------------------
(* Specification: sessions coming and going.  Every initial state is one    *)
(* the server reaches from its construction: sessions that connected and    *)
(* have no entity (they did not join, or left), beside entities placed as   *)
(* above, an entity nine updates into a punch, and an entity that was       *)
(* killed by an entity whose session then left.                             *)

\* Math.random() samples, in 1/Unit: those above and 0.9999, the top of the range
SpawnSamples == RandomSamples \cup {9999}

\* A placed entity holding ATTACK after nine updates: the first advanced the
\* stand clip and entered ATTACK.PUNCH, the next eight advanced the punch clip
\* (to index 2, sub-frame 2), so that the next one resolves the attack
Striking(ch) ==
    [ch EXCEPT !.action = PUNCH,
               !.animation = "punchR",
               !.animations.stand = [@ EXCEPT !.frame = 1],
               !.animations.punchR = [NewAnimation EXCEPT !.index = 2, !.frame = 2]]

\* an entity one hit from death after that hit: the steps of doAttack on its target
Fallen(ch) ==
    LET c1 == hurt(ch)
        c2 == resetToDeadState([c1 EXCEPT !.health = 0])
    IN [c2 EXCEPT !.animations[c2.animation] = AnimPause(@, HitPause)]

\* the scenes: the entities of the map in map order, each with its history,
\* and the sessions that are connected and have no entity
LobbyScenes ==
    { \* a punch about to resolve on a bystander, and a session about to join
      [map   |-> << [ch |-> Striking(Placed("s1", 0, 0, {"ATTACK"})),
                     hist |-> [NewHist EXCEPT !.age = 8]],
                    [ch |-> Placed("s3", 0, 0, {}), hist |-> NewHist] >>,
       lobby |-> {"s2"}, gone |-> {}],
      \* a punch about to kill an entity that holds a key
      [map   |-> << [ch |-> Battered(Placed("s2", 0, 0, {"LEFT"})), hist |-> NewHist],
                    [ch |-> Striking(Placed("s1", 0, 0, {"ATTACK"})),
                     hist |-> [NewHist EXCEPT !.age = 8]] >>,
       lobby |-> {}, gone |-> {}],
      \* a dead entity whose killer left
      [map   |-> << [ch |-> Fallen(Battered(Placed("s2", 0, 0, {}))), hist |-> NewHist] >>,
       lobby |-> {"s1"}, gone |-> {}],
      \* a dead entity whose killer disconnected
      [map   |-> << [ch |-> Fallen(Battered(Placed("s2", 0, 0, {}))), hist |-> NewHist] >>,
       lobby |-> {}, gone |-> {"s1"}],
      \* nobody in the game
      [map   |-> << >>, lobby |-> {"s1", "s2"}, gone |-> {}] }

InitLobby ==
    \E scene \in LobbyScenes :
        LET ids == {scene.map[i].ch.id : i \in 1..Len(scene.map)}
            at(s) == CHOOSE i \in 1..Len(scene.map) : scene.map[i].ch.id = s
        IN /\ sockets = [s \in Sockets |-> IF s \in ids \cup scene.lobby THEN "open"
                                           ELSE IF s \in scene.gone THEN "closed" ELSE "new"]
           /\ players = [s \in ids |-> scene.map[at(s)].ch]
           /\ order = [i \in 1..Len(scene.map) |-> scene.map[i].ch.id]
           /\ hist = [s \in ids |-> scene.map[at(s)].hist]
           /\ sinceUpdate = 0
           /\ emitted = <<>>
           /\ attackLog = <<>>
           /\ updateLog = <<>>
           /\ evLeft = LobbyEvents
           /\ ticksLeft = LobbyTicks
           /\ anim = <<>>
           /\ animHist = <<>>
           /\ boxes = <<>>
           /\ client = <<>>

NextLobby ==
    \/ \E s \in Sockets : Connection(s)
    \/ \E s \in Sockets, u \in Usernames, rx \in SpawnSamples, ry \in SpawnSamples :
           JoinGame(s, u, rx, ry)
    \/ \E s \in Sockets, rx \in SpawnSamples, ry \in SpawnSamples : Respawn(s, rx, ry)
    \/ \E s \in Sockets, key \in KeyStrings, pressed \in BOOLEAN : KeyPress(s, key, pressed)
    \/ \E s \in Sockets : LeaveGame(s)
    \/ \E s \in Sockets : Disconnect(s)
    \/ \E dt \in TimerDelays : GameLoop(dt)

SpecLobby == InitLobby /\ [][NextLobby]_vars

-----------------------------------------------------------------------------
(* Specification: the server left running, with ticks without end and a    *)
(* few session events.  The initial states are maps of entities placed as  *)
(* above.                                                                   *)

\* an entity as Battered, three hits from death
Worn(ch) == [Battered(ch) EXCEPT !.health = 3 * Damage]

LiveScenes ==
    { \* both attack, within reach of each other
      << Placed("s1", 0, 0, {"ATTACK"}), Worn(Placed("s2", 0, 0, {"ATTACK"})) >>,
      \* two entities out of each other's reach, one attacking the target
      \* between them, the other about to
      << Placed("s1", 0, 0, {"ATTACK"}), Worn(Placed("s2", 0, 550, {})),
         Placed("s3", 0, 1100, {}) >> }

InitLive ==
    \E scene \in LiveScenes :
        LET ids == {scene[i].id : i \in 1..Len(scene)}
        IN /\ sockets = [s \in Sockets |-> IF s \in ids THEN "open" ELSE "new"]
           /\ players = [s \in ids |-> LET i == CHOOSE i \in 1..Len(scene) : scene[i].id = s
                                       IN scene[i]]
           /\ order = [i \in 1..Len(scene) |-> scene[i].id]
           /\ hist = [s \in ids |-> NewHist]
           /\ sinceUpdate = 0
           /\ emitted = <<>>
           /\ attackLog = <<>>
           /\ updateLog = <<>>
           /\ evLeft = LiveEvents
           /\ ticksLeft = 0
           /\ anim = <<>>
           /\ animHist = <<>>
           /\ boxes = <<>>
           /\ client = <<>>

NextLive ==
    \/ \E s \in Sockets, pressed \in BOOLEAN : KeyPress(s, "ATTACK", pressed)
    \/ \E s \in Sockets : LeaveGame(s)
    \/ \E dt \in TimerDelays : GameLoopLive(dt)

SpecLive == InitLive /\ [][NextLive]_vars

-----------------------------------------------------------------------------
(* Specification: one browser and the server.  The Client object of the     *)
(* session ClientSession handles the keyboard with a clock of its own, its  *)
(* messages reach the server in the order they were sent, and the server    *)
(* runs its simulation steps in between.  The clock and the respawn         *)
(* requests are bounded.                                                    *)

MaxClock == 16
MaxRespawns == 1
ClientTicks == 1

INPUT_THROTTLE_MS == 16

\* Date.now() at the start, and the time that passes between two keyboard events
ClockStart == 1000
ElapseSamples == {5, 16}

\* the keys of the keyboard that are pressed: a mapped one and one that is not
KeyboardKeys == {"a", "x"}

\* Math.random() of a respawn, as the offsets it gives
ClientSpawns == {0, 9999}

ClientSession == "s2"

\* this.keyMap[event.key]
keyMap(k) ==
    CASE k = "w" -> "UP"
      [] k = "a" -> "LEFT"
      [] k = "s" -> "DOWN"
      [] k = "d" -> "RIGHT"
      [] k = "ArrowUp" -> "UP"
      [] k = "ArrowDown" -> "DOWN"
      [] k = "ArrowLeft" -> "LEFT"
      [] k = "ArrowRight" -> "RIGHT"
      [] k = "Enter" -> "ENTER"
      [] k = " " -> "ATTACK"
      [] k = "Escape" -> "ESCAPE"
      [] OTHER -> "undefined"

MappedKeys == {keyMap(k) : k \in KeyboardKeys} \ {"undefined"}

\* the value of this.inputs[key]
Recorded(value) == IF value THEN "true" ELSE "false"

\* a Client after its constructor: inputs and lastInputTime are empty objects; down is
\* the set of keyboard keys that are pressed, wire the messages on their way to the server
NewClient ==
    [inputs        |-> [key \in MappedKeys |-> "undefined"],
     lastInputTime |-> [key \in MappedKeys |-> 0],
     now           |-> ClockStart,
     down          |-> {},
     wire          |-> <<>>,
     respawnsLeft  |-> MaxRespawns]

\* client.setInput(key, value)
setInput(c, key, value) ==
    IF key = "undefined" THEN c
    ELSE IF c.inputs[key] = Recorded(value) THEN c
    ELSE LET currentTime == c.now
             lastTime == c.lastInputTime[key]
         IN IF currentTime - lastTime >= INPUT_THROTTLE_MS
            THEN [c EXCEPT !.inputs[key] = Recorded(value),
                           !.wire = Append(@, [type |-> "key-press", key |-> key,
                                                   pressed |-> value]),
                           !.lastInputTime[key] = currentTime]
            ELSE c

\* the "keydown" listener; a key that stays pressed repeats the event
HandleKeyDown(k) ==
    /\ client' = setInput([client EXCEPT !.down = @ \cup {k}], keyMap(k), TRUE)
    /\ UNCHANGED <<game, anim, animHist, boxes>>

\* the "keyup" listener
HandleKeyUp(k) ==
    /\ k \in client.down
    /\ client' = setInput([client EXCEPT !.down = @ \ {k}], keyMap(k), FALSE)
    /\ UNCHANGED <<game, anim, animHist, boxes>>

\* client.respawn(), called from the death modal
ClientRespawn ==
    /\ client.respawnsLeft > 0
    /\ ClientSession \in DOMAIN players
    /\ getPlayerInfo(players[ClientSession]).health <= 0
    /\ client' = [client EXCEPT !.wire = @ \o << [type |-> "respawn"], [type |-> "join-game"] >>,
                                !.respawnsLeft = @ - 1]
    /\ UNCHANGED <<game, anim, animHist, boxes>>

\* time passes in the browser
Elapse(dt) ==
    /\ client.now + dt <= ClockStart + MaxClock
    /\ client' = [client EXCEPT !.now = @ + dt]
    /\ UNCHANGED <<game, anim, animHist, boxes>>

\* the server's "key-press" handler, run for the oldest message on the way
DeliverKeyPress ==
    /\ client.wire # <<>>
    /\ Head(client.wire).type = "key-press"
    /\ LET s == ClientSession
           m == Head(client.wire)
       IN IF s \in DOMAIN players /\ getPlayerInfo(players[s]).health > 0
          THEN Commit(World([players EXCEPT ![s] = setKeys(@, m.key, m.pressed)], <<>>, hist))
          ELSE Commit(Fresh)
    /\ client' = [client EXCEPT !.wire = Tail(@)]
    /\ UNCHANGED <<sockets, order, sinceUpdate, evLeft, ticksLeft, anim, animHist, boxes>>

\* the server's "respawn" handler, run for the oldest message on the way
DeliverRespawn(rx, ry) ==
    /\ client.wire # <<>>
    /\ Head(client.wire).type = "respawn"
    /\ LET s == ClientSession
       IN IF s \in DOMAIN players
          THEN Commit(World([players EXCEPT ![s] = respawn(@, rx, ry)], <<>>,
                            [hist EXCEPT ![s] = NewHist]))
          ELSE Commit(Fresh)
    /\ client' = [client EXCEPT !.wire = Tail(@)]
    /\ UNCHANGED <<sockets, order, sinceUpdate, evLeft, ticksLeft, anim, animHist, boxes>>

\* the server's "join-game" handler, run for the oldest message on the way
DeliverJoinGame(rx, ry) ==
    /\ client.wire # <<>>
    /\ Head(client.wire).type = "join-game"
    /\ LET s == ClientSession
           p1 == IF s \notin DOMAIN players THEN Put(players, s, NewCharacter(s)) ELSE players
           h1 == IF s \notin DOMAIN players THEN Put(hist, s, NewHist) ELSE hist
           p2 == [p1 EXCEPT ![s] = setName(@, "ann")]
           dead == getPlayerInfo(p2[s]).health <= 0
       IN /\ Commit(World(IF dead THEN [p2 EXCEPT ![s] = respawn(@, rx, ry)] ELSE p2,
                          <<>>,
                          IF dead THEN [h1 EXCEPT ![s] = NewHist] ELSE h1))
          /\ order' = IF s \notin DOMAIN players THEN Append(order, s) ELSE order
    /\ client' = [client EXCEPT !.wire = Tail(@)]
    /\ UNCHANGED <<sockets, sinceUpdate, evLeft, ticksLeft, anim, animHist, boxes>>

\* the entity of the session in a game: on its own, or one hit from death in front
\* of a punch that is about to resolve
ClientScenes ==
    { << Placed(ClientSession, 0, 0, {}) >>,
      << Battered(Placed(ClientSession, 0, 0, {})),
         Striking(Placed("s1", 0, 0, {"ATTACK"})) >> }

InitClient ==
    \E scene \in ClientScenes :
        LET ids == {scene[i].id : i \in 1..Len(scene)}
        IN /\ sockets = [s \in Sockets |-> IF s \in ids THEN "open" ELSE "new"]
           /\ players = [s \in ids |-> LET i == CHOOSE i \in 1..Len(scene) : scene[i].id = s
                                       IN scene[i]]
           /\ order = [i \in 1..Len(scene) |-> scene[i].id]
           /\ hist = [s \in ids |-> IF players[s].action = PUNCH
                                    THEN [NewHist EXCEPT !.age = 8] ELSE NewHist]
           /\ sinceUpdate = 0
           /\ emitted = <<>>
           /\ attackLog = <<>>
           /\ updateLog = <<>>
           /\ evLeft = 0
           /\ ticksLeft = ClientTicks
           /\ anim = <<>>
           /\ animHist = <<>>
           /\ boxes = <<>>
           /\ client = NewClient

NextClient ==
    \/ \E k \in KeyboardKeys : HandleKeyDown(k)
    \/ \E k \in KeyboardKeys : HandleKeyUp(k)
    \/ ClientRespawn
    \/ \E dt \in ElapseSamples : Elapse(dt)
    \/ DeliverKeyPress
    \/ \E rx \in ClientSpawns, ry \in ClientSpawns : DeliverRespawn(rx, ry)
    \/ \E rx \in ClientSpawns, ry \in ClientSpawns : DeliverJoinGame(rx, ry)
    \/ \E dt \in TimerDelays : GameLoop(dt)

SpecClient == InitClient /\ [][NextClient]_vars

-----------------------------------------------------------------------------
(* Specification: an Animation object on its own.  It is constructed with    *)
(* the parameters of one of the Character's clips, or with small ones, and   *)
(* then updated, paused, reset and given callbacks in any order.             *)

\* the server as constructed
Constructed ==
    /\ sockets = [s \in Sockets |-> "new"]
    /\ players = <<>>
    /\ order = <<>>
    /\ sinceUpdate = 0
    /\ emitted = <<>>
    /\ attackLog = <<>>
    /\ updateLog = <<>>
    /\ hist = <<>>
    /\ evLeft = MaxEvents
    /\ ticksLeft = MaxTicks

\* constructor arguments: startFrame, frames, framePerIndex, loop
SeqClips ==
    {[startFrame |-> Clips[k].startFrame, frames |-> Clips[k].frames,
      framePerIndex |-> Clips[k].framePerIndex, loop |-> Clips[k].loop] : k \in ClipKeys}
    \cup [startFrame : {2}, frames : 1..2, framePerIndex : 1..2, loop : BOOLEAN]

NoHold == [n |-> -1, since |-> 0, index |-> 0, frame |-> 0]

\* history of an Animation: op is the operation made last; advances counts the
\* updates since the construction or reset (up to MaxAdvances) and clean tells
\* that no pause was asked since; held remembers index and sub-frame at the
\* latest Pause(n) of a clip that was not done, and the updates made since; fired
\* lists the indices whose callback the latest operation ran
NewAnimHist(op) ==
    [op |-> op, advances |-> 0, clean |-> TRUE, held |-> NoHold, fired |-> <<>>]

InitAnimation ==
    /\ Constructed
    /\ \E c \in SeqClips : anim = [c |-> c, a |-> NewAnimation, on |-> {}]
    /\ animHist = NewAnimHist("new")
    /\ boxes = <<>>
    /\ client = <<>>

\* animation.update()
AnimationUpdateCall ==
    /\ animHist.advances < MaxAdvances
    /\ LET r == SeqUpdate(anim.c, anim.a, anim.on)
       IN /\ anim' = [anim EXCEPT !.a = r.a]
          /\ animHist' = [animHist EXCEPT
                 !.op = "update",
                 !.advances = @ + 1,
                 !.held = IF @.n < 0 \/ @.since > @.n THEN NoHold
                          ELSE [@ EXCEPT !.since = @ + 1],
                 !.fired = r.fired]
    /\ UNCHANGED <<game, boxes, client>>

\* animation.Pause(frames)
AnimationPauseCall(frames) ==
    /\ anim' = [anim EXCEPT !.a = AnimPause(@, frames)]
    /\ animHist' = [animHist EXCEPT
           !.op = "Pause",
           !.clean = FALSE,
           !.held = IF anim.a.isDone THEN NoHold
                    ELSE [n |-> frames, since |-> 0,
                          index |-> anim.a.index, frame |-> anim.a.frame],
           !.fired = <<>>]
    /\ UNCHANGED <<game, boxes, client>>

\* animation.reset()
AnimationResetCall ==
    /\ animHist.op # "reset"
    /\ anim' = [anim EXCEPT !.a = AnimReset(@)]
    /\ animHist' = NewAnimHist("reset")
    /\ UNCHANGED <<game, boxes, client>>

\* animation.setOnIndexMethod(index, method), index one of the clip's indices
AnimationSetOnIndexMethodCall(index) ==
    /\ index \in 0..(anim.c.frames - 1)
    /\ Cardinality(anim.on \cup {index}) <= MaxCallbacks
    /\ anim' = [anim EXCEPT !.on = @ \cup {index}]
    /\ animHist' = [animHist EXCEPT !.op = "setOnIndexMethod", !.fired = <<>>]
    /\ UNCHANGED <<game, boxes, client>>

NextAnimation ==
    \/ AnimationUpdateCall
    \/ \E frames \in 0..MaxPause : AnimationPauseCall(frames)
    \/ AnimationResetCall
    \/ \E index \in 0..(anim.c.frames - 1) : AnimationSetOnIndexMethodCall(index)

SpecAnimation == InitAnimation /\ [][NextAnimation]_vars

-----------------------------------------------------------------------------
(* Specification: Game.checkCollisions on its own, called with boxes of      *)
(* small integer sizes and offsets, the second within Span of the first.     *)

BoxShapes ==
    { [size |-> [x |-> 2, y |-> 2], offset |-> [x |-> 0, y |-> 0]],
      [size |-> [x |-> 2, y |-> 2], offset |-> [x |-> -1, y |-> -1]],
      [size |-> [x |-> 1, y |-> 3], offset |-> [x |-> 0, y |-> -1]],
      [size |-> [x |-> 3, y |-> 1], offset |-> [x |-> -2, y |-> 0]] }

InitCollisions ==
    /\ Constructed
    /\ anim = <<>>
    /\ animHist = <<>>
    /\ client = <<>>
    /\ \E b1 \in BoxShapes, b2 \in BoxShapes, px \in -Span..Span, py \in -Span..Span :
           boxes = [box1 |-> b1, box1Position |-> [x |-> 0, y |-> 0],
                    box2 |-> b2, box2Position |-> [x |-> px, y |-> py],
                    called |-> FALSE, result |-> FALSE]

\* game.checkCollisions(box1, box1Position, box2, box2Position)
CheckCollisionsCall ==
    /\ ~boxes.called
    /\ boxes' = [boxes EXCEPT
           !.called = TRUE,
           !.result = checkCollisions(boxes.box1, boxes.box1Position,
                                      boxes.box2, boxes.box2Position)]
    /\ UNCHANGED <<game, anim, animHist, client>>

\* the caller goes on to another pair of boxes
NextBoxes(px, py) ==
    /\ boxes.called
    /\ boxes' = [boxes EXCEPT !.box2Position = [x |-> px, y |-> py],
                              !.called = FALSE, !.result = FALSE]
    /\ UNCHANGED <<game, anim, animHist, client>>

NextCollisions ==
    \/ CheckCollisionsCall
    \/ \E px \in -Span..Span, py \in -Span..Span : NextBoxes(px, py)

SpecCollisions == InitCollisions /\ [][NextCollisions]_vars

-----------------------------------------------------------------------------
(* Properties *)

Entities == DOMAIN players
Log == {attackLog[i] : i \in DOMAIN attackLog}
Updates == {updateLog[i] : i \in DOMAIN updateLog}
DeathsTo(s) == {j \in DOMAIN emitted : emitted[j].type = "player-death" /\ emitted[j].to = s}
DiedIn(e) == {s \in DOMAIN e.before : e.before[s].health > 0 /\ e.after[s].health = 0}
OffArena == [x |-> -100 * Unit, y |-> -100 * Unit]

\* The rectangles of the attack, as the specification gives them: the hitbox
\* of a punch begun facing right spans x .. x+56, begun facing left x-56 .. x,
\* and y-12 .. y+12; the hurtbox spans x-22 .. x+22 and y-6 .. y+6.  They
\* overlap when they share interior points.
StatedOverlap(right, a, b) ==
    LET left == IF right THEN a.x ELSE a.x - 56 * Unit
    IN /\ left < b.x + 22 * Unit
       /\ left + 56 * Unit > b.x - 22 * Unit
       /\ a.y - 12 * Unit < b.y + 6 * Unit
       /\ a.y + 12 * Unit > b.y - 6 * Unit

\* entity s is within reach of the resolution e
Reached(e, s) ==
    /\ s # e.attacker
    /\ StatedOverlap(e.startFacing, e.before[e.attacker].position, e.before[s].position)

Floor0(n) == IF n < 0 THEN 0 ELSE n

\* C1: every entity's health is an integer in [0,100] in every state, and in
\* the state every attack resolution leaves (takeDamage never leaves it negative)
C1_HealthInRange ==
    /\ \A s \in Entities : players[s].health \in 0..100
    /\ \A e \in Log : \A s \in DOMAIN e.after : e.after[s].health \in 0..100

\* an entity at health 10 was hit and is at 0
C1_Witness ==
    \E e \in Log : \E s \in DOMAIN e.before :
        e.before[s].health = 10 /\ e.after[s].health = 0 /\ players[s].health = 0

\* C2: an entity with health 10 that is hit has, right after the resolution,
\* health 0, action NONE, no input and the off-arena position, and exactly one
\* player-death event was emitted for it, addressed to its own session; no
\* player-death event is addressed to anyone but an entity that died
C2_DeathTransition ==
    \A e \in Log :
        /\ \A s \in DOMAIN e.before :
            (Reached(e, s) /\ e.before[s].health = 10) =>
                /\ e.after[s].health = 0
                /\ e.after[s].action = NONE
                /\ e.after[s].input = {}
                /\ e.after[s].position = OffArena
                /\ Cardinality(DeathsTo(s)) = 1
        /\ \A j \in DOMAIN emitted :
            emitted[j].type = "player-death" =>
                \E d \in Log : emitted[j].to \in DiedIn(d)

\* an entity with health 10 that held a key was hit while another entity looked on
C2_Witness ==
    \E e \in Log : \E s \in DOMAIN e.before :
        /\ Reached(e, s)
        /\ e.before[s].health = 10
        /\ e.before[s].input # {}
        /\ Cardinality(DOMAIN e.before) = 3

\* C3: a resolution uses the hitbox of the facing the punch began with, at the
\* attacker's position; every other entity whose hurtbox overlaps it loses 10
\* health, floored at 0, and has action HURT if it survives
C3_PunchHits ==
    \A e \in Log :
        /\ e.attackType = (IF e.startFacing THEN "punchR" ELSE "punch")
        /\ \A s \in DOMAIN e.before :
            Reached(e, s) =>
                /\ e.after[s].health = Floor0(e.before[s].health - 10)
                /\ e.after[s].health > 0 => e.after[s].action = HURT

\* a punch begun facing left hit one entity, which survived, and missed another
\* that the right-facing hitbox would have reached
C3_Witness ==
    \E e \in Log : \E s, u \in DOMAIN e.before :
        /\ ~e.startFacing
        /\ Reached(e, s) /\ e.before[s].health = 100 /\ e.after[s].health = 90
        /\ u # e.attacker /\ ~Reached(e, u)
        /\ StatedOverlap(TRUE, e.before[e.attacker].position, e.before[u].position)

\* C4: no resolution happens in the update that enters ATTACK.PUNCH; a punch
\* resolves in the attacker's 9th update after entering it, when the punch
\* clip arrives at index 3, and in no other: a punch in progress has resolved
\* once from its 9th update on and not before, and a punch that ran to its
\* end has resolved exactly once
C4_ResolutionTiming ==
    /\ \A e \in Log :
        /\ e.age = 9
        /\ e.before[e.attacker].animations[e.attackType].index = 3
        /\ e.before[e.attacker].animations[e.attackType].frame = 0
        /\ \A u \in Updates : u.id = e.attacker => u.before.action = PUNCH
    /\ \A s \in Entities :
        /\ players[s].action = PUNCH =>
               hist[s].resolved = (IF hist[s].age >= 9 THEN 1 ELSE 0)
        /\ hist[s].ended = PUNCH => hist[s].resolved = 1

\* a punch ran to its end and resolved once
C4_Witness ==
    \E s \in Entities : hist[s].ended = PUNCH /\ hist[s].resolved = 1 /\ hist[s].age >= 18

\* C5: a resolution tests every entity of the map but the attacker: the
\* attacker's health, action and position are unchanged by it, every other
\* entity within reach is hit, and every entity out of reach is unchanged
C5_ResolutionFrame ==
    \A e \in Log :
        /\ DOMAIN e.after = DOMAIN e.before
        /\ e.after[e.attacker].health = e.before[e.attacker].health
        /\ e.after[e.attacker].action = e.before[e.attacker].action
        /\ e.after[e.attacker].position = e.before[e.attacker].position
        /\ \A s \in DOMAIN e.before \ {e.attacker} :
            IF Reached(e, s)
            THEN /\ e.after[s].health = Floor0(e.before[s].health - 10)
                 /\ e.after[s].action = HURT \/ e.after[s].health = 0
            ELSE e.after[s] = e.before[s]

\* a resolution hit one entity and left another, out of reach, alone
C5_Witness ==
    \E e \in Log : \E s, u \in DOMAIN e.before :
        /\ s # u
        /\ Reached(e, s) /\ e.after[s] # e.before[s]
        /\ u # e.attacker /\ ~Reached(e, u)

\* C6: a hit pauses the attacker's punch clip and the target's hurt clip for 5
\* updates, during which neither advances; a punch that ran to its end took 23
\* updates if it hit and 18 if it did not, and a hurt that ran to its end took 20
C6_HitPause ==
    /\ \A e \in Log : \A s \in DOMAIN e.before :
        Reached(e, s) =>
            /\ e.after[s].animation \in {"hurt", "hurtR"}
            /\ CurrentAnim(e.after[s]).pauseFrames = 5
            /\ e.after[e.attacker].animation = e.attackType
            /\ CurrentAnim(e.after[e.attacker]).pauseFrames = 5
    /\ \A s \in Entities :
        /\ (players[s].action = PUNCH /\ hist[s].hits > 0 /\ hist[s].age \in 9..14) =>
               /\ CurrentAnim(players[s]).index = 3
               /\ CurrentAnim(players[s]).frame = 0
               /\ CurrentAnim(players[s]).pauseFrames = 14 - hist[s].age
        /\ (players[s].action = HURT /\ hist[s].age \in 0..5) =>
               /\ CurrentAnim(players[s]).index = 0
               /\ CurrentAnim(players[s]).frame = 0
               /\ CurrentAnim(players[s]).pauseFrames = 5 - hist[s].age
        /\ hist[s].ended = PUNCH => hist[s].age = (IF hist[s].hits > 0 THEN 23 ELSE 18)
        /\ hist[s].ended = HURT => hist[s].age = 20

\* a punch that hit returned its entity to NONE
C6_Witness ==
    \E s \in Entities : hist[s].ended = PUNCH /\ hist[s].hits > 0 /\ hist[s].age = 23

\* further cases of C6: a punch that hit no one, and a hurt, ran to their ends
C6_WitnessMiss ==
    \E s \in Entities : hist[s].ended = PUNCH /\ hist[s].hits = 0
C6_WitnessHurt ==
    \E s \in Entities : hist[s].ended = HURT /\ players[s].health = 90

\* C7: an update that starts in NONE with ATTACK held ends in ATTACK.PUNCH
\* with the punch clip of the entity's facing (as that update sets it) current
\* and reset; an update that starts in NONE without ATTACK held ends in NONE
C7_EnterPunch ==
    \A u \in Updates :
        u.before.action = NONE =>
            IF "ATTACK" \in u.before.input
            THEN /\ u.after.action = PUNCH
                 /\ u.after.animation = (IF u.after.facingRight THEN "punchR" ELSE "punch")
                 /\ CurrentAnim(u.after) =
                        [isDone |-> FALSE, frame |-> 0, index |-> 0, pauseFrames |-> 0]
            ELSE u.after.action = NONE

\* an entity entered a punch whose clip was still done from its previous punch
C7_Witness ==
    \E u \in Updates :
        /\ u.before.action = NONE
        /\ "ATTACK" \in u.before.input
        /\ u.before.animations[u.after.animation].isDone

\* a further case of C7: a punch entered facing left
C7_WitnessLeft ==
    \E u \in Updates :
        u.before.action = NONE /\ "ATTACK" \in u.before.input /\ ~u.after.facingRight

\* C8: an update that starts in HURT or ATTACK.PUNCH ends in NONE if and only
\* if the clip that was current is done after the update advanced it, and
\* otherwise leaves the action as it was
C8_BusyUntilDone ==
    \A u \in Updates :
        u.before.action \in {HURT, PUNCH} =>
            LET done == u.after.animations[u.before.animation].isDone
            IN /\ (u.after.action = NONE) <=> done
               /\ ~done => u.after.action = u.before.action

\* a hurt ended, and the update before that had left it in HURT
C8_Witness ==
    \E u \in Updates :
        /\ u.before.action = HURT
        /\ u.after.action = NONE
        /\ u.before.animations[u.before.animation].index = 4
        /\ u.before.animations[u.before.animation].frame = 2

\* C9: no update takes an entity from HURT to ATTACK.PUNCH, and no step of
\* the server (a tick or a session event) does: an entity in HURT is not in
\* ATTACK.PUNCH at the next tick boundary
C9_NoHurtToPunch ==
    [][ /\ \A u \in Updates' : ~(u.before.action = HURT /\ u.after.action = PUNCH)
        /\ \A s \in Entities \cap Entities' :
               players[s].action = HURT => players'[s].action # PUNCH ]_vars

\* a hurt ended in NONE while ATTACK was held
C9_Witness ==
    \E s \in Entities : hist[s].ended = HURT /\ "ATTACK" \in players[s].input

Axis(input, minus, plus) ==
    (IF plus \in input THEN 1 ELSE 0) - (IF minus \in input THEN 1 ELSE 0)
StatedStep(input) ==
    LET h == Axis(input, "LEFT", "RIGHT")
        v == Axis(input, "UP", "DOWN")
        f == IF h # 0 /\ v # 0 THEN 7071 ELSE Unit
    IN [x |-> h * 6 * f, y |-> v * 4 * f]
\* where the update u would put the entity if the arena had no walls
Unwalled(u) ==
    IF u.before.action = NONE
    THEN [x |-> u.before.position.x + StatedStep(u.before.input).x,
          y |-> u.before.position.y + StatedStep(u.before.input).y]
    ELSE u.before.position
Nearest(v, hi) == IF v < 0 THEN 0 ELSE IF v > hi THEN hi ELSE v
Abs(n) == IF n < 0 THEN -n ELSE n

\* C11: after every update the entity's position is within [0,970] x [0,600];
\* on each axis it is where the movement would put it, or the nearest wall if
\* that is outside, so an axis that stays inside is not touched by the clamp
C11_Clamped ==
    \A u \in Updates :
        /\ u.after.position.x \in 0..(970 * Unit)
        /\ u.after.position.y \in 0..(600 * Unit)
        /\ u.after.position.x = Nearest(Unwalled(u).x, 970 * Unit)
        /\ u.after.position.y = Nearest(Unwalled(u).y, 600 * Unit)

\* a step went past the far wall in x and was put on it, and moved in y
C11_Witness ==
    \E u \in Updates :
        /\ Unwalled(u).x > 970 * Unit
        /\ u.after.position.x = 970 * Unit
        /\ u.after.position.y # u.before.position.y
        /\ u.after.position.y = Unwalled(u).y

\* further cases of C11: the near wall in x with y moving, and both far walls at once
C11_WitnessNear ==
    \E u \in Updates :
        /\ Unwalled(u).x < 0
        /\ u.after.position.x = 0
        /\ u.after.position.y # u.before.position.y
C11_WitnessCorner ==
    \E u \in Updates :
        /\ Unwalled(u).x > 970 * Unit /\ Unwalled(u).y > 600 * Unit
        /\ u.after.position = [x |-> 970 * Unit, y |-> 600 * Unit]

\* C12: an update in NONE that ends strictly inside the arena moved the entity
\* by 6 horizontally or by 4 vertically when one axis is active, by 6*0.7071
\* and 4*0.7071 when both are, in the direction of the key held, and not at all
\* on an axis whose keys are both held or both released
C12_Steps ==
    \A u \in Updates :
        (/\ u.before.action = NONE
         /\ u.after.position.x > 0 /\ u.after.position.x < 970 * Unit
         /\ u.after.position.y > 0 /\ u.after.position.y < 600 * Unit) =>
            LET in == u.before.input
                h  == ("LEFT" \in in) # ("RIGHT" \in in)
                v  == ("UP" \in in) # ("DOWN" \in in)
                ex == u.after.position.x - u.before.position.x
                ey == u.after.position.y - u.before.position.y
            IN /\ (h /\ ~v) => (Abs(ex) = 6 * Unit /\ ey = 0)
               /\ (v /\ ~h) => (Abs(ey) = 4 * Unit /\ ex = 0)
               /\ (h /\ v) => (Abs(ex) = 6 * 7071 /\ Abs(ey) = 4 * 7071)
               /\ (~h /\ ~v) => (ex = 0 /\ ey = 0)
               /\ (ex < 0) <=> (h /\ "LEFT" \in in)
               /\ (ey < 0) <=> (v /\ "UP" \in in)

\* in one tick an entity made a diagonal step and another, holding both keys
\* of the horizontal axis, moved vertically only
C12_Witness ==
    \E u, w \in Updates :
        /\ u.before.action = NONE
        /\ {"LEFT", "UP"} \subseteq u.before.input
        /\ u.after.position.x - u.before.position.x = -(6 * 7071)
        /\ u.after.position.y - u.before.position.y = -(4 * 7071)
        /\ w.before.action = NONE
        /\ {"LEFT", "RIGHT", "DOWN"} \subseteq w.before.input
        /\ w.after.position.x = w.before.position.x
        /\ w.after.position.y - w.before.position.y = 4 * Unit

\* the sequencer's parameters, in the specification's words
Total == anim.c.frames
TicksPerIndex == anim.c.framePerIndex

\* C13: a non-looping sequencer that was never paused is not done after each
\* of its first F*P-1 advances and is done after the (F*P)-th and every later
\* one, and currentFrame() is then base offset + F-1
C13_DoneAfterFP ==
    (~anim.c.loop /\ animHist.clean) =>
        /\ anim.a.isDone <=> animHist.advances >= Total * TicksPerIndex
        /\ animHist.advances >= Total * TicksPerIndex =>
               getCurrentFrame(anim.c, anim.a) = anim.c.startFrame + Total - 1

\* the sequencer with 6 indices of 3 ticks was advanced 18 times and is done
C13_Witness ==
    /\ ~anim.c.loop /\ animHist.clean
    /\ Total = 6 /\ TicksPerIndex = 3
    /\ animHist.advances = 18
    /\ anim.a.isDone

\* further cases of C13: one advance earlier, and some advances later
C13_WitnessBefore ==
    /\ ~anim.c.loop /\ animHist.clean /\ Total = 6 /\ TicksPerIndex = 3
    /\ animHist.advances = 17 /\ ~anim.a.isDone
C13_WitnessLater ==
    /\ ~anim.c.loop /\ animHist.clean /\ Total = 5 /\ TicksPerIndex = 3
    /\ animHist.advances = 20 /\ getCurrentFrame(anim.c, anim.a) = 7 + 4

\* one advance of an unpaused sequencer that is not done, as the specification
\* gives it: the sub-frame goes up by one; when it reaches ticks-per-index it
\* goes back to 0 and the index goes up by one; an index that reaches the
\* total wraps to 0 if looping and stays at total-1 otherwise
StatedAdvance(index, frame) ==
    IF frame + 1 < TicksPerIndex THEN [index |-> index, frame |-> frame + 1]
    ELSE IF index + 1 < Total THEN [index |-> index + 1, frame |-> 0]
    ELSE IF anim.c.loop THEN [index |-> 0, frame |-> 0]
    ELSE [index |-> Total - 1, frame |-> 0]

\* C14: after pause(n) of a sequencer that is not done, index and sub-frame
\* are as before the pause for the next n advances, and the advance after
\* those changes them as an advance without pause would have
C14_PauseHolds ==
    animHist.held.n >= 0 =>
        IF animHist.held.since <= animHist.held.n
        THEN /\ anim.a.index = animHist.held.index
             /\ anim.a.frame = animHist.held.frame
        ELSE /\ anim.a.index = StatedAdvance(animHist.held.index, animHist.held.frame).index
             /\ anim.a.frame = StatedAdvance(animHist.held.index, animHist.held.frame).frame

\* a sequencer paused for 2 was advanced 3 times, and the third moved it to the next index
C14_Witness ==
    /\ animHist.held.n = 2
    /\ animHist.held.since = 3
    /\ anim.a.index = animHist.held.index + 1

\* a further case of C14: the second of the 2 held advances
C14_WitnessHeld ==
    animHist.held.n = 2 /\ animHist.held.since = 2 /\ animHist.held.frame > 0

\* C15: between operations the index is in [0, total-1] and the sub-frame in
\* [0, ticksPerIndex-1]; a done sequencer is non-looping and at index total-1,
\* and an advance or a pause leaves its index, sub-frame and done flag as they
\* are; an advance of a looping sequencer at the end of its last index wraps
\* index and sub-frame to 0
C15_Ranges ==
    [][ /\ anim.a.index \in 0..(Total - 1) /\ anim'.a.index \in 0..(Total - 1)
        /\ anim.a.frame \in 0..(TicksPerIndex - 1) /\ anim'.a.frame \in 0..(TicksPerIndex - 1)
        /\ anim'.a.isDone => (~anim.c.loop /\ anim'.a.index = Total - 1)
        /\ (anim.a.isDone /\ animHist'.op \in {"update", "Pause"}) =>
               /\ anim'.a.index = anim.a.index
               /\ anim'.a.frame = anim.a.frame
               /\ anim'.a.isDone
        /\ (/\ anim.c.loop /\ animHist'.op = "update" /\ anim.a.pauseFrames = 0
            /\ anim.a.index = Total - 1 /\ anim.a.frame = TicksPerIndex - 1) =>
               (anim'.a.index = 0 /\ anim'.a.frame = 0) ]_vars

\* a done sequencer was paused and then advanced
C15_Witness ==
    /\ anim.a.isDone
    /\ animHist.op = "update"
    /\ ~animHist.clean
    /\ anim.a.pauseFrames > 0

\* a further case of C15: a looping sequencer of several indices wrapped
C15_WitnessWrap ==
    /\ anim.c.loop /\ Total = 4
    /\ animHist.clean /\ animHist.advances = 12
    /\ anim.a.index = 0 /\ anim.a.frame = 0

\* C16 as claimed: an advance that brings the sequence to an index with a
\* registered callback, the arrival at index 0 by wrap-around included, runs
\* that callback once, and no other operation runs a callback
C16_CallbackPerArrival ==
    [][ LET arrival == /\ animHist'.op = "update"
                       /\ ~anim.a.isDone
                       /\ anim.a.pauseFrames = 0
                       /\ anim.a.frame = TicksPerIndex - 1
                       /\ (anim.a.index + 1 < Total \/ anim.c.loop)
        IN animHist'.fired = (IF arrival /\ anim'.a.index \in anim.on
                              THEN <<anim'.a.index>> ELSE <<>>) ]_vars

\* The rectangle of a box at a position, as the set of unit cells it covers
\* (sizes, offsets and positions are integers here); two rectangles overlap
\* in the open-interval sense exactly when they have a cell in common
Cells(box, pos) ==
    { <<i, j>> \in ((pos.x + box.offset.x)..(pos.x + box.offset.x + box.size.x - 1))
                   \X ((pos.y + box.offset.y)..(pos.y + box.offset.y + box.size.y - 1)) : TRUE }

\* C17: the result of checkCollisions is true exactly when the two rectangles
\* overlap with strictly positive extent on both axes, and the call leaves
\* its arguments as they were
C17_StrictOverlap ==
    [][ boxes'.called =>
          /\ boxes'.result =
                 (Cells(boxes.box1, boxes.box1Position)
                      \cap Cells(boxes.box2, boxes.box2Position) # {})
          /\ boxes'.box1 = boxes.box1 /\ boxes'.box1Position = boxes.box1Position
          /\ boxes'.box2 = boxes.box2 /\ boxes'.box2Position = boxes.box2Position ]_vars

\* box1's right edge is box2's left edge, the boxes share rows, and the call said no
C17_Witness ==
    /\ boxes.called
    /\ ~boxes.result
    /\ boxes.box1Position.x + boxes.box1.offset.x + boxes.box1.size.x
           = boxes.box2Position.x + boxes.box2.offset.x
    /\ boxes.box1Position.y + boxes.box1.offset.y = boxes.box2Position.y + boxes.box2.offset.y
    /\ boxes.box1.size.y = boxes.box2.size.y

\* further cases of C17: boxes that share a corner only, and boxes that overlap
C17_WitnessCorner ==
    /\ boxes.called /\ ~boxes.result
    /\ boxes.box1Position.x + boxes.box1.offset.x + boxes.box1.size.x
           = boxes.box2Position.x + boxes.box2.offset.x
    /\ boxes.box1Position.y + boxes.box1.offset.y + boxes.box1.size.y
           = boxes.box2Position.y + boxes.box2.offset.y
C17_WitnessOverlap ==
    boxes.called /\ boxes.result /\ boxes.box1 # boxes.box2

\* the place of entity s in the pass over the map
Turn(s) == CHOOSE i \in DOMAIN order : order[i] = s
\* the step is a performed tick
Ticked == ticksLeft' = ticksLeft - 1
\* the resolutions of the tick just made that killed s before its turn came
KilledBeforeTurn(s) ==
    {i \in DOMAIN attackLog' :
        /\ Turn(attackLog'[i].attacker) < Turn(s)
        /\ attackLog'[i].before[s].health > 0
        /\ attackLog'[i].after[s].health = 0}

\* C18: in a tick every update is of an entity whose health is > 0 when its
\* turn comes and no entity is updated twice; an entity alive at the start of
\* the tick is updated unless an earlier entity of the pass killed it, and is
\* then left as the kill left it; an entity dead at the start is not updated
\* and is unchanged by the tick
C18_LiveOnly ==
    [][ Ticked =>
          /\ \A i, j \in DOMAIN updateLog' :
                /\ updateLog'[i].before.health > 0
                /\ updateLog'[i].id = updateLog'[j].id => i = j
          /\ \A s \in Entities :
                LET updated == \E i \in DOMAIN updateLog' : updateLog'[i].id = s
                IN IF players[s].health = 0
                   THEN ~updated /\ players'[s] = players[s]
                   ELSE IF KilledBeforeTurn(s) # {}
                   THEN /\ ~updated
                        /\ \A i \in KilledBeforeTurn(s) : players'[s] = attackLog'[i].after[s]
                   ELSE updated ]_vars

\* in the tick just made an entity was killed by an entity before it in the
\* map, and had no update
C18_Witness ==
    \E e \in Log : \E s \in DiedIn(e) :
        /\ Turn(e.attacker) < Turn(s)
        /\ \A u \in Updates : u.id # s

\* further cases of C18: a tick updated the others and passed over an entity
\* that was dead before it; an entity was updated and then killed in one tick
C18_WitnessDead ==
    /\ Updates # {}
    /\ \E s \in Entities : players[s].health = 0 /\ \A e \in Log : s \notin DiedIn(e)
C18_WitnessLate ==
    \E e \in Log : \E s \in DiedIn(e) : \E u \in Updates : u.id = s

\* a game-status event
Statuses == {j \in DOMAIN emitted : emitted[j].type = "game-status"}

\* C19: every snapshot emitted by a tick has one record per entity of the map
\* as the update pass left it, dead entities included, in map order, with the
\* entity's id, name, health, position, facing, color, and the sprite sheet
\* and frame (base offset + index) of its current clip; totalPlayers is the
\* number of records
C19_Snapshot ==
    \A j \in Statuses :
        LET snap == emitted[j]
        IN /\ Len(snap.players) = Cardinality(Entities)
           /\ snap.totalPlayers = Len(snap.players)
           /\ {snap.players[i].id : i \in DOMAIN snap.players} = Entities
           /\ \A i \in DOMAIN snap.players :
                LET r  == snap.players[i]
                    ch == players[r.id]
                IN /\ r.id = order[i]
                   /\ r.name = ch.name
                   /\ r.health = ch.health
                   /\ r.position = ch.position
                   /\ r.facingRight = ch.facingRight
                   /\ r.color = ch.color
                   /\ r.animation.name = Clips[ch.animation].name
                   /\ r.animation.index =
                          Clips[ch.animation].startFrame + ch.animations[ch.animation].index

\* a snapshot of a tick in which one entity was killed and another moved on in
\* its clip; the dead entity is in it with health 0
C19_Witness ==
    \E j \in Statuses : \E i \in DOMAIN emitted[j].players :
        /\ emitted[j].players[i].health = 0
        /\ \E e \in Log : emitted[j].players[i].id \in DiedIn(e)
        /\ \E u \in Updates : u.after.animations # u.before.animations

\* C20 as claimed: every tick performed while a session is connected makes
\* exactly one game-status emission, addressed to all connected sessions,
\* whatever the number of entities in the map
C20_OneEmissionPerTick ==
    [][ (Ticked /\ \E s \in Sockets : sockets[s] = "open") =>
          /\ Cardinality({j \in DOMAIN emitted' : emitted'[j].type = "game-status"}) = 1
          /\ \A j \in DOMAIN emitted' :
                emitted'[j].type = "game-status" => emitted'[j].to = "ALL" ]_vars

\* C21: a firing of the timer, dt ms after the one before, performs a step
\* (the update pass and the broadcast) if the time since the last performed
\* step has reached 1000/60 ms, and then performs one step only, with at most
\* one update per entity, and restarts the count; otherwise it updates nothing,
\* emits nothing and lets the time since the last step run on; nothing but a
\* firing of the timer performs a step
C21_Throttle ==
    [][ /\ \A dt \in TimerDelays :
              GameLoop(dt) =>
                  IF 60 * (sinceUpdate + dt) >= 1000
                  THEN /\ Ticked
                       /\ sinceUpdate' = 0
                       /\ Len(updateLog') <= Cardinality(Entities)
                       /\ Cardinality({j \in DOMAIN emitted' :
                                          emitted'[j].type = "game-status"})
                              <= Cardinality(Entities)
                  ELSE /\ ~Ticked
                       /\ sinceUpdate' = sinceUpdate + dt
                       /\ players' = players
                       /\ emitted' = <<>>
                       /\ updateLog' = <<>>
        /\ (Ticked \/ updateLog' # <<>>) => \E dt \in TimerDelays : GameLoop(dt) ]_vars

\* the timer fired too early after a performed step, with entities in the
\* map, and nothing was updated or emitted
C21_Witness ==
    /\ sinceUpdate = 16
    /\ ticksLeft < MaxTicks
    /\ Entities # {}
    /\ updateLog = <<>> /\ emitted = <<>>

-----------------------------------------------------------------------------
(* Sessions: join, key-press, respawn, leave, disconnect *)

\* the spawn region as the specification gives it: 100 .. 300 on each axis
InSpawnRegion(p) ==
    /\ p.x >= 100 * Unit /\ p.x <= 300 * Unit
    /\ p.y >= 100 * Unit /\ p.y <= 300 * Unit

\* a respawned entity, as the specification gives it
Respawned(ch) ==
    /\ ch.health = 100
    /\ InSpawnRegion(ch.position)
    /\ ch.action = NONE
    /\ ch.input = {}
    /\ ch.facingRight

\* the entities other than s are as they were
OthersKept(s) == \A t \in (Entities \cup Entities') \ {s} :
                     t \in Entities /\ t \in Entities' /\ players'[t] = players[t]

\* the ids of the records of the snapshots, and of the entities an attack saw
SnapshotIds == UNION {{emitted[j].players[i].id : i \in DOMAIN emitted[j].players} : j \in Statuses}
AttackIds == UNION {DOMAIN e.before \cup DOMAIN e.after : e \in Log}

\* C22: a join for a session without entity creates one entity (health 100,
\* action NONE, position (100,100), empty input) with the given name; for a
\* session with a live entity it changes the name and nothing else; for a
\* session with a dead entity it sets the name and respawns the entity
C22_Join ==
    [][ \A s \in Sockets, u \in Usernames, rx \in SpawnSamples, ry \in SpawnSamples :
          JoinGame(s, u, rx, ry) =>
            /\ OthersKept(s)
            /\ Entities' = Entities \cup {s}
            /\ IF s \notin Entities
               THEN /\ players'[s].health = 100
                    /\ players'[s].action = NONE
                    /\ players'[s].position = [x |-> 100 * Unit, y |-> 100 * Unit]
                    /\ players'[s].input = {}
                    /\ players'[s].name = u
               ELSE IF players[s].health > 0
               THEN players'[s] = [players[s] EXCEPT !.name = u]
               ELSE /\ players'[s].name = u
                    /\ Respawned(players'[s]) ]_vars

\* a dead entity was joined again under another name: it is alive, at a
\* spawn point that only a respawn gives
C22_Witness ==
    /\ evLeft = LobbyEvents - 1
    /\ \E s \in Entities :
          /\ players[s].name = "bob"
          /\ players[s].health = 100
          /\ players[s].position.x = SpawnBase * Unit + 9999 * SpawnRange

\* C23: a session id maps to at most one entity, and a session that is
\* connected but has not joined, or has left and not joined again, has no
\* entity: only its own join puts an entity under its id, and while it has
\* none, no snapshot has a record of it and no attack sees it
C23_OneEntityPerSession ==
    [][ /\ \A i, j \in DOMAIN order' : order'[i] = order'[j] => i = j
        /\ {order'[i] : i \in DOMAIN order'} = Entities'
        /\ \A s \in Entities' : players'[s].id = s /\ sockets'[s] = "open"
        /\ \A s \in Entities' \ Entities :
              \E u \in Usernames, rx \in SpawnSamples, ry \in SpawnSamples : JoinGame(s, u, rx, ry)
        /\ \A s \in Sockets : Connection(s) => players' = players
        /\ \A s \in Sockets \ Entities' : s \notin SnapshotIds' /\ s \notin AttackIds' ]_vars

\* a session is connected and has no entity while an attack is resolved and
\* snapshots are emitted
C23_Witness ==
    /\ \E s \in Sockets : sockets[s] = "open" /\ s \notin Entities
    /\ \E e \in Log : DiedIn(e) # {} \/ e.after # e.before
    /\ Statuses # {}

\* C24: a key-press for a session whose entity has health 0 changes nothing,
\* for presses and for releases; the input set of a dead entity is empty and
\* stays empty for as long as the entity is dead
C24_DeadIgnoresKeys ==
    [][ /\ \A s \in Entities : players[s].health = 0 => players[s].input = {}
        /\ \A s \in Entities' : players'[s].health = 0 => players'[s].input = {}
        /\ \A s \in Entities, key \in KeyStrings, pressed \in BOOLEAN :
              (KeyPress(s, key, pressed) /\ players[s].health = 0) =>
                  players' = players /\ order' = order /\ emitted' = <<>> ]_vars

\* the session of a dead entity, the only one connected, has sent two events
\* that were not respawn, join, leave or disconnect: the entity is still dead,
\* where it died, with an empty input set
C24_Witness ==
    /\ evLeft = 0
    /\ ticksLeft = LobbyTicks
    /\ \E s \in Entities : /\ players[s].health = 0
                           /\ players[s].input = {}
                           /\ players[s].position = OffArena
                           /\ \A t \in Sockets \ {s} : sockets[t] # "open"

\* C25: a key-press whose key is not one of UP, DOWN, LEFT, RIGHT, ATTACK is
\* ignored: it leaves every entity, its input set included, as it was
C25_UnknownKeyIgnored ==
    [][ \A s \in Sockets, key \in KeyStrings \ Keys, pressed \in BOOLEAN :
          KeyPress(s, key, pressed) => players' = players ]_vars

\* C26: a key-press, respawn, leave-game or disconnect event of a session
\* that has no entity in the map is ignored: the map and every entity are
\* unchanged and nothing is emitted
C26_NoEntityIgnored ==
    [][ \A s \in Sockets \ Entities :
          ( \/ \E key \in KeyStrings, pressed \in BOOLEAN : KeyPress(s, key, pressed)
            \/ \E rx \in SpawnSamples, ry \in SpawnSamples : Respawn(s, rx, ry)
            \/ LeaveGame(s)
            \/ Disconnect(s) )
          => players' = players /\ order' = order /\ emitted' = <<>> ]_vars

\* nobody was in the game, one event was received, it was the disconnect of
\* a session without entity, and the map is still empty
C26_Witness ==
    /\ evLeft = LobbyEvents - 1
    /\ Entities = {}
    /\ sockets = [s \in Sockets |-> IF s = "s1" THEN "closed"
                                    ELSE IF s = "s2" THEN "open" ELSE "new"]
    /\ emitted = <<>>

\* C27: respawn() on a dead entity gives health 100, a position with x and y
\* in 100 .. 300, action NONE, an empty input set and facing right; a
\* key-press of a game key for a live entity, a respawned one included, is
\* taken into its input set, while the same event for a dead one is ignored
C27_RespawnOfDead ==
    [][ /\ \A s \in Entities, rx \in SpawnSamples, ry \in SpawnSamples :
              (Respawn(s, rx, ry) /\ players[s].health = 0) => Respawned(players'[s])
        /\ \A s \in Entities, key \in Keys, pressed \in BOOLEAN :
              KeyPress(s, key, pressed) =>
                  IF players[s].health = 0
                  THEN players' = players
                  ELSE players' = [players EXCEPT ![s].input =
                                      IF pressed THEN @ \cup {key} ELSE @ \ {key}] ]_vars

\* the dead entity of a game with no other entity was respawned, at the far
\* end of the spawn region, and a key-press of its session was then accepted
C27_Witness ==
    /\ evLeft = 0
    /\ ticksLeft = LobbyTicks
    /\ Entities = {"s2"}
    /\ players["s2"].health = 100
    /\ players["s2"].position.x = SpawnBase * Unit + 9999 * SpawnRange
    /\ players["s2"].input \cap Keys # {}

C29_RespawnRequest ==
    [][ /\ \A s \in Entities, rx \in SpawnSamples, ry \in SpawnSamples :
              Respawn(s, rx, ry) =>
                  /\ Respawned(players'[s])
                  /\ players'[s].name = players[s].name
                  /\ OthersKept(s)
                  /\ order' = order
        /\ \A s \in Entities \cap Entities' :
              (players'[s].health > players[s].health) =>
                  \/ \E rx \in SpawnSamples, ry \in SpawnSamples : Respawn(s, rx, ry)
                  \/ /\ players[s].health = 0
                     /\ \E u \in Usernames, rx \in SpawnSamples, ry \in SpawnSamples :
                            JoinGame(s, u, rx, ry) ]_vars

\* a live entity, battered and holding a key, was respawned by the one event
\* received: it has full health, a spawn point that only a respawn gives, and
\* no key held
C29_Witness ==
    /\ evLeft = LobbyEvents - 1
    /\ ticksLeft = LobbyTicks
    /\ order = <<"s2", "s1">>
    /\ players["s2"].health = 100
    /\ players["s2"].position.x = SpawnBase * Unit + 9999 * SpawnRange
    /\ players["s2"].input = {}
    /\ players["s2"].name = "ann"

-----------------------------------------------------------------------------
(* Movement keys during HURT and ATTACK.PUNCH *)

\* C30: an update of an entity that starts in HURT or ATTACK.PUNCH leaves its
\* position and its facing as they were whatever keys are held, and leaves
\* the held keys in the input set; an update that starts in NONE moves the
\* entity by the step of the keys held, up to the walls
C30_BusyStandsStill ==
    \A u \in Updates :
        /\ u.after.input = u.before.input
        /\ u.before.action \in {HURT, PUNCH} =>
              /\ u.after.position = u.before.position
              /\ u.after.facingRight = u.before.facingRight
        /\ u.before.action = NONE =>
              /\ u.after.position.x = Nearest(Unwalled(u).x, MaxX * Unit)
              /\ u.after.position.y = Nearest(Unwalled(u).y, MaxY * Unit)

\* an entity in its punch holds LEFT and does not move
C30_Witness ==
    \E u \in Updates :
        /\ u.before.action = PUNCH
        /\ "LEFT" \in u.before.input
        /\ u.after.position = u.before.position

\* the punch is over and the key still held moves the entity a second step
C30_WitnessResumes ==
    \E u \in Updates :
        /\ u.before.action = NONE
        /\ "LEFT" \in u.before.input
        /\ u.before.position.x = 94 * Unit
        /\ u.after.position.x = 88 * Unit

-----------------------------------------------------------------------------
(* Facing *)

\* C31: after every update that starts in NONE the entity faces left if and
\* only if LEFT is held and RIGHT is not; idle, moving right, moving only up
\* or down, or holding LEFT and RIGHT together, it faces right
C31_Facing ==
    \A u \in Updates :
        u.before.action = NONE =>
            (u.after.facingRight <=>
                ~("LEFT" \in u.before.input /\ "RIGHT" \notin u.before.input))

\* an entity that faced left is updated in NONE without moving sideways,
\* with no key or with only a vertical key held, and faces right
C31_Witness ==
    \E u \in Updates :
        /\ u.before.action = NONE
        /\ ~u.before.facingRight
        /\ u.before.input \subseteq {"UP", "DOWN"}
        /\ u.after.facingRight

\* an entity that holds LEFT and RIGHT together faces right
C31_WitnessBoth ==
    \E u \in Updates :
        /\ u.before.action = NONE
        /\ {"LEFT", "RIGHT"} \subseteq u.before.input
        /\ u.after.facingRight

-----------------------------------------------------------------------------
(* Interrupted punches *)

\* the resolution e hits entity s while s is in a punch whose clip has not
\* arrived at the trigger index
InterruptedBy(e, s) ==
    /\ s \in DOMAIN e.before
    /\ s # e.attacker
    /\ e.before[s].action = PUNCH
    /\ e.before[s].animations[e.before[s].animation].index < TriggerIndex
    /\ e.after[s] # e.before[s]

\* C32: an entity that is hit in ATTACK.PUNCH before its punch clip arrives at
\* the trigger index never resolves that punch: the clip stops where it was,
\* no later resolution of the tick is the entity's, every resolution is made
\* by an entity that was in ATTACK.PUNCH with its punch clip current when the
\* tick began, and ATTACK.PUNCH is entered from NONE only, with the clip at
\* its start and nothing resolved
C32_InterruptedPunch ==
    [][ /\ \A i \in DOMAIN attackLog' : \A s \in Entities' :
              InterruptedBy(attackLog'[i], s) =>
                  LET k == attackLog'[i].before[s].animation
                  IN /\ \A j \in DOMAIN attackLog' : j > i => attackLog'[j].attacker # s
                     /\ players'[s].action = HURT \/ players'[s].health = 0
                     /\ players'[s].animation \notin {"punch", "punchR"}
                     /\ players'[s].animations[k] = attackLog'[i].before[s].animations[k]
                     /\ players'[s].health < players[s].health
        /\ \A i \in DOMAIN attackLog' :
              LET a == attackLog'[i].attacker
              IN /\ players[a].action = PUNCH
                 /\ players[a].animation = attackLog'[i].attackType
                 /\ attackLog'[i].before[a].action = PUNCH
        /\ \A s \in Entities \cap Entities' :
              (players'[s].action = PUNCH /\ players[s].action # PUNCH) =>
                  /\ players[s].action = NONE
                  /\ players'[s].animations[players'[s].animation].index = 0
                  /\ hist'[s].resolved = 0 ]_vars

\* an entity was hit two or three updates into its punch and is in HURT,
\* its punch unresolved
C32_Witness ==
    \E e \in Log : \E s \in Entities :
        /\ InterruptedBy(e, s)
        /\ e.before[s].animations[e.before[s].animation].index \in 1..2
        /\ players[s].action = HURT
        /\ hist[s].resolved = 0

\* an entity that was hit earlier resolves a punch of its own
C32_WitnessLater ==
    \E e \in Log : \E s \in Entities :
        /\ e.before[e.attacker].health < FullHealth
        /\ s # e.attacker
        /\ e.after[s].health < e.before[s].health

-----------------------------------------------------------------------------
(* Two punches due in the same tick *)

\* the entity is alive, in a punch, and its punch clip arrives at the trigger
\* index in its next update
DueToResolve(ch) ==
    /\ ch.health > 0
    /\ ch.action = PUNCH
    /\ ch.animation \in {"punch", "punchR"}
    /\ LET a == ch.animations[ch.animation]
       IN /\ ~a.isDone
          /\ a.pauseFrames = 0
          /\ a.index = TriggerIndex - 1
          /\ a.frame = Clips[ch.animation].framePerIndex - 1

\* the hitbox of the punch of ch overlaps the hurtbox of target
PunchReaches(ch, target) ==
    StatedOverlap(ch.animation = "punchR", ch.position, target.position)

\* a comes before b in the iteration order of the map
Earlier(a, b) ==
    \E i, j \in DOMAIN order : i < j /\ order[i] = a /\ order[j] = b

-----------------------------------------------------------------------------
(* Dead entities *)

\* C34: an entity with health 0 is never hit: it is at (-100,-100), the
\* hitbox of no resolution overlaps its hurtbox, and the resolution leaves it
\* as it was; the player-death events sent to a session in a step are as
\* many as the times its entity's health went from positive to 0 in it
C34_DeadNeverHit ==
    /\ \A e \in Log : \A s \in DOMAIN e.before :
          e.before[s].health = 0 =>
              /\ e.before[s].position = OffArena
              /\ ~Reached(e, s)
              /\ e.after[s] = e.before[s]
    /\ \A s \in Sockets :
          Cardinality(DeathsTo(s)) =
              Cardinality({i \in DOMAIN attackLog : s \in DiedIn(attackLog[i])})

\* a punch is resolved with an entity in the map that another punch killed
\* earlier in the tick, within reach of the place where it died
C34_Witness ==
    \E e, d \in Log : \E s \in DiedIn(d) :
        /\ e.attacker # d.attacker
        /\ e.before[s].health = 0
        /\ e.after[s] = e.before[s]
        /\ StatedOverlap(e.startFacing, e.before[e.attacker].position, d.before[s].position)

\* C35: every entity of the map with health 0 has action NONE, an empty
\* input set and position (-100,-100), and every entity with health > 0 has
\* a position inside the arena, 0 .. 970 by 0 .. 600
C35_DeadAndLiveShape ==
    \A s \in Entities :
        IF players[s].health = 0
        THEN /\ players[s].action = NONE
             /\ players[s].input = {}
             /\ players[s].position = OffArena
        ELSE /\ players[s].health > 0
             /\ players[s].position.x >= 0 /\ players[s].position.x <= 970 * Unit
             /\ players[s].position.y >= 0 /\ players[s].position.y <= 600 * Unit

\* an entity that held a key was killed in this tick, beside a live entity
C35_Witness ==
    \E e \in Log : \E s \in DiedIn(e) :
        /\ e.before[s].input # {}
        /\ players[s].health = 0
        /\ players[s].position = OffArena
        /\ players[e.attacker].health > 0

-----------------------------------------------------------------------------
(* Health, facing and clips across events *)

\* C36: the health of an entity never goes up while the entity is alive:
\* across an event or a tick it rises only from 0, to 100
C36_NoHealing ==
    [][ \A s \in Entities \cap Entities' :
          players'[s].health > players[s].health =>
              players[s].health = 0 /\ players'[s].health = 100 ]_vars

RightClips == {"standR", "runR", "hurtR", "punchR"}
LoopingClips == {"stand", "standR", "run", "runR"}

\* C37: the direction of an entity's current clip agrees with its facing
\* flag in every state, right after creation and right after respawn too
C37_ClipAgreesWithFacing ==
    \A s \in Entities : players[s].facingRight <=> players[s].animation \in RightClips

\* C38: for every entity with health > 0 the action is HURT exactly when the
\* current clip is hurt or hurtR, ATTACK.PUNCH exactly when it is punch or
\* punchR, and NONE exactly when it is stand, standR, run or runR; a looping
\* clip is never paused and never done
C38_ActionClip ==
    \A s \in Entities :
        /\ players[s].health > 0 =>
              /\ players[s].action = HURT <=> players[s].animation \in {"hurt", "hurtR"}
              /\ players[s].action = PUNCH <=> players[s].animation \in {"punch", "punchR"}
              /\ players[s].action = NONE <=> players[s].animation \in LoopingClips
        /\ \A k \in LoopingClips :
              /\ players[s].animations[k].pauseFrames = 0
              /\ ~players[s].animations[k].isDone

\* an entity that was hit in its punch is in HURT with its hurt clip paused,
\* beside an attacker whose punch clip is paused
C38_Witness ==
    \E e \in Log : \E s \in Entities :
        /\ e.before[s].action = PUNCH
        /\ players[s].action = HURT
        /\ players[s].health > 0
        /\ players[s].animations[players[s].animation].pauseFrames > 0
        /\ players[e.attacker].animations[players[e.attacker].animation].pauseFrames > 0

\* a respawned entity that was dead has been updated and is in NONE again
C38_WitnessRespawned ==
    \E u \in Updates :
        /\ u.before.position.x = SpawnBase * Unit + 9999 * SpawnRange
        /\ u.before.animation = "stand"
        /\ u.after.animation \in LoopingClips

-----------------------------------------------------------------------------
(* Progress *)

\* a firing of the timer that performs a step
TickPerformed ==
    \E dt \in TimerDelays : GameLoopLive(dt) /\ TARGET_FPS * (sinceUpdate + dt) >= 1000

\* C39: in every run in which ticks keep being performed, every entity whose
\* action is HURT or ATTACK.PUNCH comes to have action NONE or leaves the map
C39_BusyEnds ==
    []<><<TickPerformed>>_vars =>
        \A s \in Sockets :
            (s \in Entities /\ players[s].action \in {HURT, PUNCH})
                ~> (s \notin Entities \/ players[s].action = NONE)

\* an entity that was already in HURT is hit again and is still in HURT,
\* its hurt clip started anew
C39_Witness ==
    \E e \in Log : \E s \in Entities :
        /\ Reached(e, s)
        /\ e.before[s].action = HURT
        /\ e.before[s].animations[e.before[s].animation].index > 0
        /\ players[s].action = HURT
        /\ players[s].health > 0

-----------------------------------------------------------------------------
(* The browser and the server *)

\* the keys the client has handled a key-down of and, after it, a key-up
Released ==
    {keyMap(k) : k \in {k \in KeyboardKeys \ client.down :
                            /\ keyMap(k) # "undefined"
                            /\ client.inputs[keyMap(k)] # "undefined"}}

\* the keys the client records as held
RecordedHeld == {key \in MappedKeys : client.inputs[key] = "true"}

\* C40: whenever the entity of the client's session is live and no message of the
\* client is on its way, the server's input set holds no key that the client has
\* handled a key-down and then a key-up of, and it holds exactly the keys the
\* client records as held (a quick release is not lost, and a key recorded as
\* held after a respawn is held on the server)
C40_InputAgrees ==
    ( /\ client.wire = <<>>
      /\ ClientSession \in Entities
      /\ players[ClientSession].health > 0 )
        => /\ players[ClientSession].input \cap Released = {}
           /\ players[ClientSession].input = RecordedHeld

====
